---- MODULE Spec2Model ----
(***************************************************************************)
(* Model of the ubik-whisper-api job pipelines: the transcription job      *)
(* (app/api/transcribe.py, app/services/transcribe_service.py), the       *)
(* summarization job (app/api/summarize.py,                               *)
(* app/services/summarize_service.py), and the job store they write       *)
(* (app/services/supabase_service.py).                                    *)
(*                                                                         *)
(* Representation.                                                         *)
(*   Optional[x]   None is <<>>, a present value v is <<v>>.               *)
(*   str (texts)   a sequence of naturals: 0 is one newline character, a   *)
(*                 k > 0 is a run of k characters that are not newlines.   *)
(*   float         an exact fraction [num, den] in lowest terms.           *)
(*   str(e)        an error message [kind, unit, detail]: the wrapper      *)
(*                 prefix the code puts in front (kind, with the 1-based   *)
(*                 unit number it formats in) and the innermost message.   *)
(***************************************************************************)
EXTENDS Integers, Sequences, FiniteSets, TLC

\* ------------------------------------------------------------------ bounds
\* Uploaded audio lengths are the multiples 0..MaxLenSteps of LenStep ms.
LenStep == 150000
MaxLenSteps == 3
\* Texts returned by the speech-to-text service: empty, or one paragraph of
\* ParaStep characters.
ParaStep == 9000

\* ------------------------------------------------------- program constants
CHUNK_DURATION_MS == 3 * 60 * 1000
MAX_TOKENS_PER_CHUNK == 4000

PENDING == "pending"
PROCESSING == "processing"
COMPLETED == "completed"
FAILED == "failed"
StatusEnum == {PENDING, PROCESSING, COMPLETED, FAILED}

\* ----------------------------------------------------------------- values
None == <<>>
Some(v) == <<v>>
IsNone(o) == o = <<>>
Get(o) == o[1]

RECURSIVE GCD(_, _)
GCD(a, b) == IF b = 0 THEN a ELSE GCD(b, a % b)

\* The float a / b (b > 0), as a fraction in lowest terms.
Frac(a, b) == LET g == GCD(a, b) IN [num |-> a \div g, den |-> b \div g]
FMul(p, q) == Frac(p.num * q.num, p.den * q.den)
FLeq(p, q) == p.num * q.den <= q.num * p.den
FLt(p, q) == p.num * q.den < q.num * p.den
Zero == Frac(0, 1)
One == Frac(1, 1)
Half == Frac(1, 2)

\* len(text)
RECURSIVE StrLen(_)
StrLen(t) == IF t = <<>> THEN 0
             ELSE (IF Head(t) = 0 THEN 1 ELSE Head(t)) + StrLen(Tail(t))

\* sep.join(parts) for a list of str
RECURSIVE JoinStr(_, _)
JoinStr(sep, parts) ==
    IF parts = <<>> THEN <<>>
    ELSE IF Len(parts) = 1 THEN parts[1]
    ELSE parts[1] \o sep \o JoinStr(sep, Tail(parts))

\* The paragraph separator "\n\n".
ParaSep == <<0, 0>>

\* ------------------------------------------------------------ error values
\* str(e) of an exception raised by a library call (store, storage, pydub).
RawMsg(m) == [kind |-> "", unit |-> 0, detail |-> m]
\* f"{prefix} {unit}: {str(inner)}" or f"{prefix}: {str(inner)}"
WrapMsg(prefix, unit, inner) ==
    [kind |-> prefix, unit |-> unit, detail |-> inner]
Exc(cls, msg) == [cls |-> cls, msg |-> msg]
\* len(str(e)) = 0
IsEmptyMsg(msg) == msg.kind = "" /\ msg.detail = ""

\* Messages of exceptions raised by the store, the storage and the decoder.
ExcMessages == {"", "connection error"}
\* Messages of exceptions raised by the inference client.
ApiMessages == {"api error"}

\* ------------------------------------------------------------- job store
\* create_transcription_job: the row inserted.
create_transcription_job(transcription_id) ==
    [status |-> PENDING, progress |-> Zero,
     chunks |-> [enc |-> "list", val |-> <<>>],
     full_transcription |-> None, error |-> None]

\* Mutant: an empty chunks list is left out of the update, so that the
\* column keeps its value.
update_transcription_job_keep_chunks(store, transcription_data) ==
    IF transcription_data.id \in DOMAIN store
    THEN [store EXCEPT ![transcription_data.id] =
            [status |-> transcription_data.status,
             progress |-> transcription_data.progress,
             chunks |-> IF transcription_data.chunks # <<>>
                        THEN [enc |-> "json", val |-> transcription_data.chunks]
                        ELSE @.chunks,
             full_transcription |-> transcription_data.full_transcription,
             error |-> transcription_data.error]]
    ELSE store

\* Mutant: the update has no filter on the id, so that it overwrites the
\* columns of every row of the table.
update_transcription_job_all_rows(store, transcription_data) ==
    IF transcription_data.id \in DOMAIN store
    THEN [k \in DOMAIN store |->
            [status |-> transcription_data.status,
             progress |-> transcription_data.progress,
             chunks |-> IF transcription_data.chunks # <<>>
                        THEN [enc |-> "json", val |-> transcription_data.chunks]
                        ELSE [enc |-> "list", val |-> <<>>],
             full_transcription |-> transcription_data.full_transcription,
             error |-> transcription_data.error]]
    ELSE store

\* update_transcription_job: every column but the id is overwritten by the
\* fields of the TranscriptionData passed; a non-empty chunks list is stored
\* as a JSON string, an empty one as [].
update_transcription_job(store, transcription_data) ==
    IF transcription_data.id \in DOMAIN store
    THEN [store EXCEPT ![transcription_data.id] =
            [status |-> transcription_data.status,
             progress |-> transcription_data.progress,
             chunks |-> IF transcription_data.chunks # <<>>
                        THEN [enc |-> "json", val |-> transcription_data.chunks]
                        ELSE [enc |-> "list", val |-> <<>>],
             full_transcription |-> transcription_data.full_transcription,
             error |-> transcription_data.error]]
    ELSE store

\* Mutant: the select leaves out the rows that are still Pending.
get_transcription_job_started(store, transcription_id) ==
    IF transcription_id \notin DOMAIN store
       \/ store[transcription_id].status = PENDING
    THEN None
    ELSE LET job_data == store[transcription_id] IN
         Some([id |-> transcription_id,
               status |-> job_data.status,
               progress |-> job_data.progress,
               chunks |-> IF job_data.chunks.enc = "json"
                          THEN job_data.chunks.val ELSE <<>>,
               full_transcription |-> job_data.full_transcription,
               error |-> job_data.error])

\* get_transcription_job: None when there is no row, else the row as a
\* TranscriptionData; chunks are decoded only from a JSON string.
get_transcription_job(store, transcription_id) ==
    IF transcription_id \notin DOMAIN store THEN None
    ELSE LET job_data == store[transcription_id] IN
         Some([id |-> transcription_id,
               status |-> job_data.status,
               progress |-> job_data.progress,
               chunks |-> IF job_data.chunks.enc = "json"
                          THEN job_data.chunks.val ELSE <<>>,
               full_transcription |-> job_data.full_transcription,
               error |-> job_data.error])

\* create_summary_job: the row inserted.
create_summary_job(summary_id, transcribe_id) ==
    [transcribe_id |-> transcribe_id, status |-> PENDING, progress |-> Zero,
     summary |-> None, error |-> None, metadata |-> None]

\* update_summary_job: status, progress, summary, error and metadata are
\* overwritten by the fields of the SummaryData passed (transcribe_id is not
\* written); metadata is stored as a JSON string when it is truthy.
update_summary_job(store, summary_data) ==
    IF summary_data.id \in DOMAIN store
    THEN [store EXCEPT ![summary_data.id] =
            [transcribe_id |-> @.transcribe_id,
             status |-> summary_data.status,
             progress |-> summary_data.progress,
             summary |-> summary_data.summary,
             error |-> summary_data.error,
             metadata |-> summary_data.metadata]]
    ELSE store

\* get_summary_job: None when there is no row, else the row as a SummaryData.
get_summary_job(store, summary_id) ==
    IF summary_id \notin DOMAIN store THEN None
    ELSE LET job_data == store[summary_id] IN
         Some([id |-> summary_id,
               transcribe_id |-> job_data.transcribe_id,
               status |-> job_data.status,
               progress |-> job_data.progress,
               summary |-> job_data.summary,
               error |-> job_data.error,
               metadata |-> job_data.metadata])

\* SummaryData(id=...) with the defaults of the model class.
SummaryData(id, transcribe_id, status, progress) ==
    [id |-> id, transcribe_id |-> transcribe_id, status |-> status,
     progress |-> progress, summary |-> None, error |-> None,
     metadata |-> None]

\* TranscriptionData(id=...) with the defaults of the model class.
TranscriptionData(id, status, progress) ==
    [id |-> id, status |-> status, progress |-> progress, chunks |-> <<>>,
     full_transcription |-> None, error |-> None]

\* -------------------------------------------------------------- text split
\* text.split("\n\n"): the pieces between non-overlapping separators, found
\* left to right; cur is the piece being read.
RECURSIVE split_paragraphs(_, _)
split_paragraphs(cur, rest) ==
    IF rest = <<>> THEN <<cur>>
    ELSE IF Len(rest) >= 2 /\ rest[1] = 0 /\ rest[2] = 0
    THEN <<cur>> \o split_paragraphs(<<>>, SubSeq(rest, 3, Len(rest)))
    ELSE split_paragraphs(Append(cur, rest[1]), Tail(rest))

\* The loop of split_text_into_chunks over the paragraphs left, with the
\* chunks closed so far, the current chunk and its counted size.
RECURSIVE split_text_loop(_, _, _, _, _)
split_text_loop(paragraphs, chunks, current_chunk, current_chunk_size, max_chars) ==
    IF paragraphs = <<>>
    THEN IF current_chunk # <<>> THEN Append(chunks, current_chunk) ELSE chunks
    ELSE LET paragraph == Head(paragraphs)
             paragraph_size == StrLen(paragraph) IN
         IF current_chunk_size + paragraph_size > max_chars
         THEN split_text_loop(Tail(paragraphs),
                 IF current_chunk # <<>> THEN Append(chunks, current_chunk)
                 ELSE chunks,
                 paragraph, paragraph_size, max_chars)
         ELSE split_text_loop(Tail(paragraphs), chunks,
                 IF current_chunk # <<>>
                 THEN current_chunk \o ParaSep \o paragraph ELSE paragraph,
                 current_chunk_size + paragraph_size, max_chars)

split_text_into_chunks(text, max_tokens) ==
    split_text_loop(split_paragraphs(<<>>, text), <<>>, <<>>, 0, max_tokens * 4)

\* ------------------------------------------------------------ audio split
Min(a, b) == IF a < b THEN a ELSE b

\* Mutant: every chunk ends chunk_duration_ms after its start.
RECURSIVE split_from_fixed_length(_, _, _)
split_from_fixed_length(i, length_ms, chunk_duration_ms) ==
    IF i >= length_ms THEN <<>>
    ELSE << [start_time |-> i, end_time |-> i + chunk_duration_ms] >>
         \o split_from_fixed_length(i + chunk_duration_ms, length_ms,
                                    chunk_duration_ms)

\* range(0, length_ms, chunk_duration_ms) from start i on
RECURSIVE split_from(_, _, _)
split_from(i, length_ms, chunk_duration_ms) ==
    IF i >= length_ms THEN <<>>
    ELSE << [start_time |-> i,
             end_time |-> Min(i + chunk_duration_ms, length_ms)] >>
         \o split_from(i + chunk_duration_ms, length_ms, chunk_duration_ms)

\* split_audio_file: the (start_time_ms, end_time_ms) of each chunk, in order.
split_audio_file(length_ms, chunk_duration_ms) ==
    split_from(0, length_ms, chunk_duration_ms)

\* ------------------------------------------------------------ inputs
supported_formats == {".m4a", ".mp3", ".wav", ".mp4", ".mpeg", ".mpga", ".webm"}

AudioLengths == {k * LenStep : k \in 0..MaxLenSteps}

\* An upload: its file extension, whether it has any bytes, whether the
\* bytes decode as audio, and the decoded length in ms.
Uploads ==
    {[ext |-> ".txt", bytes |-> TRUE, decodable |-> FALSE, length_ms |-> 0],
     [ext |-> ".m4a", bytes |-> FALSE, decodable |-> FALSE, length_ms |-> 0],
     [ext |-> ".m4a", bytes |-> TRUE, decodable |-> FALSE, length_ms |-> 0]}
    \cup {[ext |-> ".m4a", bytes |-> TRUE, decodable |-> TRUE, length_ms |-> l] :
            l \in AudioLengths}

NoUpload == [ext |-> "", bytes |-> FALSE, decodable |-> FALSE, length_ms |-> 0]

\* response.text values of the speech-to-text service.
WhisperTexts == {<<>>, <<ParaStep>>}

\* Job ids are opaque strings (uuid4): the ids of the jobs that are submitted.
TIds == {"t1"}
SIds == {"s1"}
NoId == ""
EmptyStore == [id \in {} |-> id]

VARIABLES
    tStore,     \* table "transcriptions": id -> row
    tTask,      \* id -> the run of process_audio_file for that job
    sStore,     \* table "summaries": id -> row
    sTask,      \* id -> the run of process_transcription for that job
    seen,       \* the last response to a status query
    http,       \* the last response to a submission
    fn_in,      \* the arguments of a call of a splitting function
    fn_out      \* what that call returned, None before it returns

tVars == <<tStore, tTask>>
sVars == <<sStore, sTask>>
fVars == <<fn_in, fn_out>>
vars == <<tStore, tTask, sStore, sTask, seen, http, fn_in, fn_out>>

\* ------------------------------------------------------- pipeline locals
\* Besides the locals of the function, a run records what it did: the units
\* it dispatched to inference (dispatched, 1-based), the text each answered
\* call of process_audio_file returned (produced), the unit whose
\* inference call raised and the message of that call (failed_unit,
\* failed_cause), the exception the handler caught (exc), the exception
\* that left the function (raised), and whether the server process died
\* while the run was under way (lost). process_audio_file also has the
\* temporary files of the run that exist on disk (files: 0 is the file the
\* upload was saved to, k the file of chunk k) next to its list temp_files.
\* The state of a process_audio_file run that is not yet scheduled.
TIdle ==
    [pc |-> "idle", file |-> NoUpload, chunks |-> <<>>, i |-> 0,
     transcription_chunks |-> <<>>,
     transcription_data |-> TranscriptionData(NoId, PENDING, Zero),
     exc |-> None, raised |-> None,
     dispatched |-> <<>>, produced |-> <<>>,
     failed_unit |-> 0, failed_cause |-> "", lost |-> FALSE,
     files |-> {}, temp_files |-> <<>>]

\* The state of a process_transcription run that is not yet scheduled.
SIdle ==
    [pc |-> "idle", transcription_id |-> NoId, full_transcription |-> <<>>,
     chunks |-> <<>>, i |-> 0, chunk_summaries |-> <<>>,
     summary_data |-> SummaryData(NoId, NoId, PENDING, Zero),
     final |-> None, exc |-> None, raised |-> None,
     dispatched |-> <<>>, failed_unit |-> 0, failed_cause |-> "",
     checked |-> FALSE, lost |-> FALSE]

NoStatus == [op |-> "", id |-> NoId, code |-> 0, body |-> None]
\* A response to a submission, with the temporary files the request wrote
\* that are on disk when the handler returns and belong to no run.
NoResponse == [op |-> "", code |-> 0, id |-> NoId, arg |-> NoId, files |-> {}]
NoCall == [fn |-> ""]

Init ==
    /\ tStore = EmptyStore
    /\ tTask = [j \in TIds |-> TIdle]
    /\ sStore = EmptyStore
    /\ sTask = [j \in SIds |-> SIdle]
    /\ seen = NoStatus
    /\ http = NoResponse
    /\ fn_in = NoCall
    /\ fn_out = None

\* ------------------------------------------------------- POST /transcribe
\* Mutant: the exception handler of transcribe_audio leaves the file.
transcribe_audio_except_keep_file(temp_file_path, files) == files

\* Lines 76-83: the exception handler of transcribe_audio removes the file
\* the upload was saved to, when the request got as far as creating it.
transcribe_audio_except(temp_file_path, files) ==
    IF ~IsNone(temp_file_path) /\ Get(temp_file_path) \in files
    THEN files \ {Get(temp_file_path)}
    ELSE files

\* transcribe_audio: validation, the temporary file (0) the upload is saved
\* to, the Pending insert, then the background task; an exception anywhere
\* answers 400 or 500 and schedules nothing.
transcribe_audio(file) ==
    /\ \E transcription_id \in DOMAIN tTask \ DOMAIN tStore :
       IF file.ext \notin supported_formats
       THEN /\ http' = [op |-> "transcribe", code |-> 400, id |-> NoId,
                        arg |-> NoId,
                        files |-> transcribe_audio_except(None, {})]
            /\ UNCHANGED <<tStore, tTask, seen>>
       ELSE IF ~file.bytes
       THEN /\ http' = [op |-> "transcribe", code |-> 400, id |-> NoId,
                        arg |-> NoId,
                        files |-> transcribe_audio_except(Some(0), {0})]
            /\ UNCHANGED <<tStore, tTask, seen>>
       ELSE \E ok \in BOOLEAN :
            IF ok
            THEN /\ tStore' = (transcription_id :> create_transcription_job(transcription_id)) @@ tStore
                 /\ tTask' = [tTask EXCEPT ![transcription_id] =
                                [TIdle EXCEPT !.pc = "start", !.file = file,
                                              !.files = {0}]]
                 /\ http' = [op |-> "transcribe", code |-> 200,
                             id |-> transcription_id, arg |-> NoId,
                             files |-> {}]
                 /\ UNCHANGED seen
            ELSE /\ http' = [op |-> "transcribe", code |-> 500, id |-> NoId,
                             arg |-> NoId,
                             files |-> transcribe_audio_except(Some(0), {0})]
                 /\ UNCHANGED <<tStore, tTask, seen>>
    /\ UNCHANGED <<sVars, fVars>>

\* ------------------------------------------------------ process_audio_file
\* The exception handler is entered with exception e.
TRaise(j, t, e) == [t EXCEPT !.pc = "except", !.exc = Some(e)]

\* Mutant: the Processing write is not awaited: the run goes on whether or
\* not the write reached the store.
process_audio_file_start_not_awaited(j) ==
    /\ tTask[j].pc = "start"
    /\ LET data == TranscriptionData(j, PROCESSING, Zero) IN
       \E ok \in BOOLEAN :
         /\ tStore' = IF ok THEN update_transcription_job(tStore, data)
                      ELSE tStore
         /\ tTask' = [tTask EXCEPT ![j] =
               [@ EXCEPT !.pc = "upload", !.transcription_data = data,
                         !.temp_files = <<0>>]]
    /\ UNCHANGED <<seen, http>>
    /\ UNCHANGED <<sVars, fVars>>

\* Lines 43-55: temp_files = [file_path] and the Processing write.
process_audio_file_start(j) ==
    /\ tTask[j].pc = "start"
    /\ LET data == TranscriptionData(j, PROCESSING, Zero) IN
       \E ok \in BOOLEAN, m \in ExcMessages :
         IF ok
         THEN /\ tStore' = update_transcription_job(tStore, data)
              /\ tTask' = [tTask EXCEPT ![j] =
                    [@ EXCEPT !.pc = "upload", !.transcription_data = data,
                              !.temp_files = <<0>>]]
         ELSE /\ tTask' = [tTask EXCEPT ![j] =
                    TRaise(j, [@ EXCEPT !.transcription_data = data,
                                        !.temp_files = <<0>>],
                           Exc("Exception", RawMsg(m)))]
              /\ UNCHANGED tStore
    /\ UNCHANGED <<seen, http>>
    /\ UNCHANGED <<sVars, fVars>>

\* Lines 57-62: save_file, the upload to storage.
process_audio_file_upload(j) ==
    /\ tTask[j].pc = "upload"
    /\ \E ok \in BOOLEAN, m \in ExcMessages :
         tTask' = [tTask EXCEPT ![j] =
            IF ok THEN [@ EXCEPT !.pc = "load"]
            ELSE TRaise(j, @, Exc("Exception", RawMsg(m)))]
    /\ UNCHANGED <<tStore, seen, http>>
    /\ UNCHANGED <<sVars, fVars>>

\* Lines 64-80: load_audio_file and split_audio_file. The export of chunk
\* number failed_at may raise (failed_at = 0: none does): the files of
\* the chunks exported before it exist, and the list of chunks, with their
\* paths, is never returned.
process_audio_file_split(j) ==
    /\ tTask[j].pc = "load"
    /\ LET chunks == split_audio_file(tTask[j].file.length_ms,
                                      CHUNK_DURATION_MS) IN
       \E m \in ExcMessages, failed_at \in 0..Len(chunks) :
         tTask' = [tTask EXCEPT ![j] =
            IF ~tTask[j].file.decodable
            THEN TRaise(j, @, Exc("TranscriptionError",
                                  WrapMsg("Failed to load audio file", 0, m)))
            ELSE IF failed_at > 0
            THEN TRaise(j, [@ EXCEPT !.files = @ \cup 1..(failed_at - 1)],
                        Exc("Exception", RawMsg(m)))
            ELSE [@ EXCEPT !.pc = "loop", !.i = 0, !.chunks = chunks,
                           !.files = @ \cup 1..Len(chunks),
                           !.temp_files = @ \o [k \in 1..Len(chunks) |-> k]]]
    /\ UNCHANGED <<tStore, seen, http>>
    /\ UNCHANGED <<sVars, fVars>>

\* transcribe_chunk: the outcome of one speech-to-text call. A call that
\* raises, and a response that is falsy or has no text attribute, raise
\* TranscriptionError("Failed to transcribe audio chunk: ..."); any text,
\* the empty one included, is returned.
WhisperOutcomes ==
    {[ok |-> FALSE, text |-> <<>>, cause |-> m] : m \in ApiMessages}
    \cup {[ok |-> FALSE, text |-> <<>>,
           cause |-> "Received invalid response from OpenAI Whisper API"]}
    \cup {[ok |-> TRUE, text |-> t, cause |-> ""] : t \in WhisperTexts}

\* ChunkInfo(start_time=start/1000, end_time=end/1000, text=text)
ChunkInfo(chunk, text) ==
    [start_time |-> Frac(chunk.start_time, 1000),
     end_time |-> Frac(chunk.end_time, 1000), text |-> text]

\* Mutant: the 0-based index is used as the number of units done.
transcribe_progress_zero_based(i, total_chunks) == Frac(i, total_chunks)

\* Line 103: progress after the unit with 0-based index i of total_chunks.
transcribe_progress(i, total_chunks) == Frac(i + 1, total_chunks)

\* Lines 84-100: the loop head and the inference call for unit i.
process_audio_file_transcribe(j) ==
    /\ tTask[j].pc = "loop"
    /\ tTask[j].i < Len(tTask[j].chunks)
    /\ LET t == tTask[j]
           i == t.i IN
       \E r \in WhisperOutcomes :
         tTask' = [tTask EXCEPT ![j] =
            IF r.ok
            THEN [@ EXCEPT !.pc = "progress",
                    !.dispatched = Append(@, i + 1),
                    !.produced = Append(@, [unit |-> i + 1, text |-> r.text]),
                    !.transcription_chunks =
                        Append(@, ChunkInfo(t.chunks[i + 1], r.text))]
            ELSE TRaise(j, [@ EXCEPT !.dispatched = Append(@, i + 1),
                                     !.failed_unit = i + 1,
                                     !.failed_cause = r.cause],
                        Exc("TranscriptionError",
                            WrapMsg("Failed to transcribe chunk", i + 1,
                                    r.cause)))]
    /\ UNCHANGED <<tStore, seen, http>>
    /\ UNCHANGED <<sVars, fVars>>

\* Mutant: the progress write is left to a later moment: the loop goes on
\* to the next unit without writing.
process_audio_file_progress_deferred(j) ==
    /\ tTask[j].pc = "progress"
    /\ LET t == tTask[j]
           data == [t.transcription_data EXCEPT
                      !.progress = transcribe_progress(t.i, Len(t.chunks)),
                      !.chunks = t.transcription_chunks] IN
       tTask' = [tTask EXCEPT ![j] =
                    [@ EXCEPT !.pc = "loop", !.i = @ + 1,
                              !.transcription_data = data]]
    /\ UNCHANGED <<tStore, seen, http>>
    /\ UNCHANGED <<sVars, fVars>>

\* Mutant: the progress write carries the segment of the last unit only.
process_audio_file_progress_last_only(j) ==
    /\ tTask[j].pc = "progress"
    /\ LET t == tTask[j]
           data == [t.transcription_data EXCEPT
                      !.progress = transcribe_progress(t.i, Len(t.chunks)),
                      !.chunks = <<t.transcription_chunks[
                                      Len(t.transcription_chunks)]>>] IN
       \E ok \in BOOLEAN, m \in ExcMessages :
         IF ok
         THEN /\ tStore' = update_transcription_job(tStore, data)
              /\ tTask' = [tTask EXCEPT ![j] =
                    [@ EXCEPT !.pc = "loop", !.i = @ + 1,
                              !.transcription_data = data,
                              !.files = @ \ {t.i + 1},
                              !.temp_files =
                                  SelectSeq(@, LAMBDA f : f # t.i + 1)]]
         ELSE /\ tTask' = [tTask EXCEPT ![j] =
                    TRaise(j, [@ EXCEPT !.transcription_data = data],
                           Exc("Exception", RawMsg(m)))]
              /\ UNCHANGED tStore
    /\ UNCHANGED <<seen, http>>
    /\ UNCHANGED <<sVars, fVars>>

\* Lines 102-113: the progress write after unit i, then the removal of the
\* file of the unit, from the disk and from temp_files.
process_audio_file_progress(j) ==
    /\ tTask[j].pc = "progress"
    /\ LET t == tTask[j]
           data == [t.transcription_data EXCEPT
                      !.progress = transcribe_progress(t.i, Len(t.chunks)),
                      !.chunks = t.transcription_chunks] IN
       \E ok \in BOOLEAN, m \in ExcMessages :
         IF ok
         THEN /\ tStore' = update_transcription_job(tStore, data)
              /\ tTask' = [tTask EXCEPT ![j] =
                    [@ EXCEPT !.pc = "loop", !.i = @ + 1,
                              !.transcription_data = data,
                              !.files = @ \ {t.i + 1},
                              !.temp_files =
                                  SelectSeq(@, LAMBDA f : f # t.i + 1)]]
         ELSE /\ tTask' = [tTask EXCEPT ![j] =
                    TRaise(j, [@ EXCEPT !.transcription_data = data],
                           Exc("Exception", RawMsg(m)))]
              /\ UNCHANGED tStore
    /\ UNCHANGED <<seen, http>>
    /\ UNCHANGED <<sVars, fVars>>

\* Mutant: the texts are joined from the last segment to the first.
join_transcription_reversed(transcription_chunks) ==
    LET n == Len(transcription_chunks) IN
    JoinStr(ParaSep, [k \in 1..n |-> transcription_chunks[n + 1 - k].text])

\* Line 117: "\n\n".join of the texts of the segments, in list order.
join_transcription(transcription_chunks) ==
    JoinStr(ParaSep, [k \in 1..Len(transcription_chunks) |->
                         transcription_chunks[k].text])

\* Lines 121-123: the fields set on the job object at completion.
transcribe_completed(data, full_transcription) ==
    [data EXCEPT !.status = COMPLETED, !.progress = One,
                 !.full_transcription = Some(full_transcription)]

\* Lines 115-124: the join and the Completed write.
process_audio_file_complete(j) ==
    /\ tTask[j].pc = "loop"
    /\ tTask[j].i >= Len(tTask[j].chunks)
    /\ LET t == tTask[j]
           full_transcription == join_transcription(t.transcription_chunks)
           data == transcribe_completed(t.transcription_data, full_transcription) IN
       \E ok \in BOOLEAN, m \in ExcMessages :
         IF ok
         THEN /\ tStore' = update_transcription_job(tStore, data)
              /\ tTask' = [tTask EXCEPT ![j] =
                    [@ EXCEPT !.pc = "finally", !.transcription_data = data]]
         ELSE /\ tTask' = [tTask EXCEPT ![j] =
                    TRaise(j, [@ EXCEPT !.transcription_data = data],
                           Exc("Exception", RawMsg(m)))]
              /\ UNCHANGED tStore
    /\ UNCHANGED <<seen, http>>
    /\ UNCHANGED <<sVars, fVars>>

\* Mutant: the handler marks the job object of the run as failed instead of
\* building a new one.
transcribe_failed_reuse(t, transcription_id, e) ==
    [t.transcription_data EXCEPT !.status = FAILED, !.progress = Zero,
                                 !.error = Some(e.msg)]

\* Mutant: the Failed job object keeps the progress reached so far.
transcribe_failed_keep_progress(t, transcription_id, e) ==
    [TranscriptionData(transcription_id, FAILED, t.transcription_data.progress)
        EXCEPT !.error = Some(e.msg)]

\* Lines 130-135: the job object written by the exception handler.
transcribe_failed(t, transcription_id, e) ==
    [TranscriptionData(transcription_id, FAILED, Zero) EXCEPT
        !.error = Some(e.msg)]

\* Lines 126-141: the exception handler: the Failed write, then the
\* exception is raised again, as a TranscriptionError. When the Failed
\* write raises, that exception leaves the function instead.
process_audio_file_except(j) ==
    /\ tTask[j].pc = "except"
    /\ LET t == tTask[j]
           e == Get(t.exc)
           data == transcribe_failed(t, j, e) IN
       \E ok \in BOOLEAN, m \in ExcMessages :
         IF ok
         THEN /\ tStore' = update_transcription_job(tStore, data)
              /\ tTask' = [tTask EXCEPT ![j] =
                    [@ EXCEPT !.pc = "finally", !.transcription_data = data,
                              !.raised = Some(Exc("TranscriptionError", e.msg))]]
         ELSE /\ tTask' = [tTask EXCEPT ![j] =
                    [@ EXCEPT !.pc = "finally", !.transcription_data = data,
                              !.raised = Some(Exc("Exception", RawMsg(m)))]]
              /\ UNCHANGED tStore
    /\ UNCHANGED <<seen, http>>
    /\ UNCHANGED <<sVars, fVars>>

\* Mutant: the cleanup runs inside the try block, so that a cleanup error
\* after the Completed write enters the exception handler.
process_audio_file_finally_in_try(j) ==
    /\ tTask[j].pc = "finally"
    /\ \E ok \in BOOLEAN, m \in ExcMessages :
         IF ok
         THEN /\ tTask' = [tTask EXCEPT ![j] = [@ EXCEPT !.pc = "done"]]
              /\ UNCHANGED tStore
         ELSE /\ tStore' = update_transcription_job(tStore,
                    transcribe_failed(tTask[j], j, Exc("Exception", RawMsg(m))))
              /\ tTask' = [tTask EXCEPT ![j] = [@ EXCEPT !.pc = "done"]]
    /\ UNCHANGED <<seen, http>>
    /\ UNCHANGED <<sVars, fVars>>

\* Mutant: a run that ended with an exception is scheduled again.
process_audio_file_finally_retry(j) ==
    /\ tTask[j].pc = "finally"
    /\ tTask' = [tTask EXCEPT ![j] =
          IF IsNone(@.raised) THEN [@ EXCEPT !.pc = "done"]
          ELSE [TIdle EXCEPT !.pc = "start", !.file = tTask[j].file]]
    /\ UNCHANGED <<tStore, seen, http>>
    /\ UNCHANGED <<sVars, fVars>>

\* cleanup_temp_files: every path of the list that exists is removed.
cleanup_temp_files(files, file_paths) ==
    files \ {file_paths[k] : k \in DOMAIN file_paths}

\* Lines 143-145: the finally block; the run is over.
process_audio_file_finally(j) ==
    /\ tTask[j].pc = "finally"
    /\ tTask' = [tTask EXCEPT ![j] =
          [@ EXCEPT !.pc = "done",
                    !.files = cleanup_temp_files(@, tTask[j].temp_files)]]
    /\ UNCHANGED <<tStore, seen, http>>
    /\ UNCHANGED <<sVars, fVars>>

\* ------------------------------------- GET /transcribe/status/{id}
\* TranscribeStatusResponse built from the row.
TranscribeStatusResponse(transcription_data) ==
    [id |-> transcription_data.id,
     status |-> transcription_data.status,
     progress |-> transcription_data.progress,
     transcription |-> transcription_data.full_transcription,
     error |-> transcription_data.error]

\* Ids a client may ask the status of: the ids of the jobs (before and after
\* their submission) and an id that no job has.
StatusIds == {"unknown"}

\* get_transcription_job_status: 404 when get_transcription_status finds no
\* row, 500 when the read raises, else the snapshot.
get_transcription_job_status(transcription_id) ==
    LET transcription_data == get_transcription_job(tStore, transcription_id) IN
    /\ \E ok \in BOOLEAN :
         seen' = IF ~ok
                 THEN [op |-> "transcribe_status", id |-> transcription_id,
                       code |-> 500, body |-> None]
                 ELSE IF IsNone(transcription_data)
                 THEN [op |-> "transcribe_status", id |-> transcription_id,
                       code |-> 404, body |-> None]
                 ELSE [op |-> "transcribe_status", id |-> transcription_id,
                       code |-> 200,
                       body |-> Some(TranscribeStatusResponse(Get(transcription_data)))]
    /\ UNCHANGED <<tVars, sVars, http, fVars>>

\* --------------------------------------------------- metadata and format
\* A text is a sequence of pieces that are separated by single spaces; a
\* piece is a character string in which each regular expression of
\* extract_metadata_from_text has at most one match, and no match spans
\* two pieces.
Word(w) == <<"word", w>>
Range(f) == {f[k] : k \in DOMAIN f}
Pieces ==
    {"notes", "5/6/2024", "2024-05-06", "May 5th, 2024", "5 May 2024",
     "https://example.com.", "www.example.com/2024-05-06", "a@b.io",
     "ref: Knuth,", "book: Knuth;"}

\* re.findall(date_patterns[k], w, re.IGNORECASE) for one piece w.
date_patterns(k, w) ==
    CASE k = 1 /\ w = "5/6/2024" -> <<"5/6/2024">>
      [] k = 2 /\ w \in {"2024-05-06", "www.example.com/2024-05-06"}
            -> <<"2024-05-06">>
      [] k = 3 /\ w = "May 5th, 2024" -> <<"May 5th, 2024">>
      [] k = 4 /\ w = "5 May 2024" -> <<"5 May 2024">>
      [] OTHER -> <<>>

\* re.findall(link_pattern, w): \S+ takes everything up to the next space.
link_pattern(k, w) ==
    IF w \in {"https://example.com.", "www.example.com/2024-05-06"}
    THEN <<w>> ELSE <<>>

\* re.findall(email_pattern, w)
email_pattern(k, w) == IF w = "a@b.io" THEN <<w>> ELSE <<>>

\* re.findall(reference_patterns[k], w, re.IGNORECASE): the group after
\* the keyword, up to the next comma, full stop or semicolon.
reference_patterns(k, w) ==
    CASE k = 1 /\ w = "ref: Knuth," -> <<"Knuth">>
      [] k = 2 /\ w = "book: Knuth;" -> <<"Knuth">>
      [] OTHER -> <<>>

\* re.findall(pattern, w) for one piece w: pattern is the name of the
\* list of patterns and k the position in that list.
match(pattern, k, w) ==
    CASE pattern = "date_patterns" -> date_patterns(k, w)
      [] pattern = "link_pattern" -> link_pattern(k, w)
      [] pattern = "email_pattern" -> email_pattern(k, w)
      [] pattern = "reference_patterns" -> reference_patterns(k, w)

\* re.findall(pattern, text): the matches in the order of the text.
RECURSIVE findall(_, _, _)
findall(pattern, k, text) ==
    IF text = <<>> THEN <<>>
    ELSE match(pattern, k, Head(text)[2]) \o findall(pattern, k, Tail(text))

\* list(set(xs)): the distinct elements of xs, in an order that depends on
\* the hash seed of the process.
RECURSIVE Orders(_)
Orders(S) ==
    IF S = {} THEN {<<>>}
    ELSE UNION {{<<x>> \o l : l \in Orders(S \ {x})} : x \in S}

\* Lines 71-101: the lists of matches before duplicates are removed.
extract_matches(text) ==
    [dates |-> findall("date_patterns", 1, text) \o findall("date_patterns", 2, text)
               \o findall("date_patterns", 3, text)
               \o findall("date_patterns", 4, text),
     links |-> findall("link_pattern", 1, text),
     references |-> findall("reference_patterns", 1, text)
                    \o findall("reference_patterns", 2, text),
     people |-> <<>>,
     organizations |-> <<>>,
     key_topics |-> <<>>,
     other_info |-> findall("email_pattern", 1, text)]

\* Mutant: the final loop that removes the duplicates is missing.
extract_metadata_from_text_no_dedupe(text) ==
    LET m == extract_matches(text) IN
    [dates : {m.dates}, links : Orders(Range(m.links)),
     references : {m.references}, people : {m.people},
     organizations : {m.organizations}, key_topics : {m.key_topics},
     other_info : {m.other_info}]

\* extract_metadata_from_text: the dictionaries a call can return.
extract_metadata_from_text(text) ==
    LET m == extract_matches(text) IN
    [dates : Orders(Range(m.dates)), links : Orders(Range(m.links)),
     references : Orders(Range(m.references)), people : Orders(Range(m.people)),
     organizations : Orders(Range(m.organizations)),
     key_topics : Orders(Range(m.key_topics)),
     other_info : Orders(Range(m.other_info))]

\* The "- {item}\n" lines of a category.
Items(items) == [k \in 1..Len(items) |-> <<"item", items[k]>>]

\* "\n### {title}\n" and the lines of a category that is not empty.
Section(title, items) ==
    IF items # <<>> THEN <<<<"h3", title>>>> \o Items(items) ELSE <<>>

\* Mutant: the links are rendered before the dates.
format_summary_links_first(summary, metadata) ==
    LET has_metadata ==
            \E k \in DOMAIN metadata : Len(metadata[k]) > 0 IN
    IF has_metadata
    THEN summary \o <<<<"h2", "Additional Information">>>>
         \o Section("Links/URLs", metadata.links)
         \o Section("Dates Mentioned", metadata.dates)
         \o Section("References", metadata.references)
         \o Section("People Mentioned", metadata.people)
         \o Section("Organizations Mentioned", metadata.organizations)
         \o Section("Key Topics", metadata.key_topics)
         \o Section("Other Relevant Information", metadata.other_info)
    ELSE summary

\* format_summary: the summary, then the "Additional Information" section
\* when some category is non-empty.
format_summary(summary, metadata) ==
    LET has_metadata ==
            \E k \in DOMAIN metadata : Len(metadata[k]) > 0 IN
    IF has_metadata
    THEN summary \o <<<<"h2", "Additional Information">>>>
         \o Section("Dates Mentioned", metadata.dates)
         \o Section("Links/URLs", metadata.links)
         \o Section("References", metadata.references)
         \o Section("People Mentioned", metadata.people)
         \o Section("Organizations Mentioned", metadata.organizations)
         \o Section("Key Topics", metadata.key_topics)
         \o Section("Other Relevant Information", metadata.other_info)
    ELSE summary

\* ------------------------------------------------------- POST /summarize
\* Ids a client may send: the empty string, the ids of the jobs, and an id
\* that no job has.
RequestIds == TIds \cup {NoId, "unknown"}

\* not s, for an Optional[str] s
Falsy(s) == IsNone(s) \/ Get(s) = <<>>

\* Mutant: only the existence of the transcription is checked.
summarize_reject_code_exists(transcribe_id, transcription_data) ==
    IF transcribe_id = NoId THEN 400
    ELSE IF IsNone(transcription_data) THEN 404
    ELSE 0

\* Lines 31-57 of summarize_transcription: the status code the request is
\* rejected with, 0 when it passes; transcription_data is what
\* get_transcription_status found.
summarize_reject_code(transcribe_id, transcription_data) ==
    IF transcribe_id = NoId THEN 400
    ELSE IF IsNone(transcription_data) THEN 404
    ELSE IF Get(transcription_data).status # COMPLETED THEN 400
    ELSE IF Falsy(Get(transcription_data).full_transcription) THEN 400
    ELSE 0

\* summarize_transcription: the referenced transcription is read and
\* checked, then the Pending insert, then the background task; a store
\* error in the read or in the insert answers 500.
summarize_transcription(transcribe_id) ==
    /\ \E summary_id \in DOMAIN sTask \ DOMAIN sStore :
       LET transcription_data == get_transcription_job(tStore, transcribe_id)
           code == summarize_reject_code(transcribe_id, transcription_data)
           reject(c) ==
               /\ http' = [op |-> "summarize", code |-> c, id |-> NoId,
                           arg |-> transcribe_id, files |-> {}]
               /\ UNCHANGED <<sStore, sTask, seen>> IN
       \E read_ok \in BOOLEAN, insert_ok \in BOOLEAN :
         IF transcribe_id # NoId /\ ~read_ok THEN reject(500)
         ELSE IF code # 0 THEN reject(code)
         ELSE IF ~insert_ok THEN reject(500)
         ELSE /\ sStore' = (summary_id :> create_summary_job(summary_id, transcribe_id)) @@ sStore
              /\ sTask' = [sTask EXCEPT ![summary_id] =
                              [SIdle EXCEPT !.pc = "get",
                                            !.transcription_id = transcribe_id]]
              /\ http' = [op |-> "summarize", code |-> 200, id |-> summary_id,
                          arg |-> transcribe_id, files |-> {}]
              /\ UNCHANGED seen
    /\ UNCHANGED <<tVars, fVars>>

\* --------------------------------------------------- process_transcription
SRaise(t, e) == [t EXCEPT !.pc = "except", !.exc = Some(e)]

\* Lines 45-62: the referenced transcription is read and checked again.
process_transcription_get(j) ==
    /\ sTask[j].pc = "get"
    /\ LET t == sTask[j]
           transcription_data == get_transcription_job(tStore, t.transcription_id) IN
       \E ok \in BOOLEAN, m \in ExcMessages :
         sTask' = [sTask EXCEPT ![j] =
            IF ~ok
            THEN SRaise(@, Exc("SummarizationError",
                    WrapMsg("Failed to retrieve transcription data", 0, m)))
            ELSE IF IsNone(transcription_data)
            THEN SRaise(@, Exc("ResourceNotFoundError",
                    WrapMsg("Transcription not found", 0, "")))
            ELSE IF Get(transcription_data).status # COMPLETED
            THEN SRaise(@, Exc("InvalidRequestError",
                    WrapMsg("Transcription is not completed", 0,
                            Get(transcription_data).status)))
            ELSE IF Falsy(Get(transcription_data).full_transcription)
            THEN SRaise(@, Exc("InvalidRequestError",
                    WrapMsg("Transcription has no content", 0, "")))
            ELSE [@ EXCEPT !.pc = "start", !.checked = TRUE,
                    !.full_transcription =
                        Get(Get(transcription_data).full_transcription)]]
    /\ UNCHANGED <<sStore, seen, http>>
    /\ UNCHANGED <<tVars, fVars>>

\* Lines 64-77: the Processing write, then the split into chunks.
process_transcription_start(j) ==
    /\ sTask[j].pc = "start"
    /\ LET t == sTask[j]
           data == SummaryData(j, t.transcription_id, PROCESSING, Zero) IN
       \E ok \in BOOLEAN, m \in ExcMessages :
         IF ok
         THEN /\ sStore' = update_summary_job(sStore, data)
              /\ sTask' = [sTask EXCEPT ![j] =
                    [@ EXCEPT !.pc = "loop", !.i = 0, !.summary_data = data,
                              !.chunks = split_text_into_chunks(
                                  t.full_transcription, MAX_TOKENS_PER_CHUNK)]]
         ELSE /\ sTask' = [sTask EXCEPT ![j] =
                    SRaise([@ EXCEPT !.summary_data = data],
                           Exc("Exception", RawMsg(m)))]
              /\ UNCHANGED sStore
    /\ UNCHANGED <<seen, http>>
    /\ UNCHANGED <<tVars, fVars>>

\* message.content values of the text-generation service for one chunk.
ChunkSummaryTexts == {<<>>, <<1500>>}

\* summarize_chunk: the outcome of one chat completion. A call that raises,
\* and a response that is falsy or has no choices, raise
\* SummarizationError("Failed to summarize text chunk: ..."); otherwise
\* choices[0].message.content is returned as it is, None and "" included.
SummarizeOutcomes ==
    {[ok |-> FALSE, value |-> None, cause |-> m] : m \in ApiMessages}
    \cup {[ok |-> FALSE, value |-> None,
           cause |-> "Received invalid response from OpenAI API"]}
    \cup {[ok |-> TRUE, value |-> None, cause |-> ""]}
    \cup {[ok |-> TRUE, value |-> Some(c), cause |-> ""] : c \in ChunkSummaryTexts}

\* Mutant: the summaries of the units count for the whole progress.
summarize_progress_unweighted(i, total_chunks) == Frac(i + 1, total_chunks)

\* Line 93: progress after the unit with 0-based index i of total_chunks.
summarize_progress(i, total_chunks) == FMul(Frac(i + 1, total_chunks), Half)

\* Lines 81-90: the loop head and the inference call for unit i.
process_transcription_summarize(j) ==
    /\ sTask[j].pc = "loop"
    /\ sTask[j].i < Len(sTask[j].chunks)
    /\ LET i == sTask[j].i IN
       \E r \in SummarizeOutcomes :
         sTask' = [sTask EXCEPT ![j] =
            IF r.ok
            THEN [@ EXCEPT !.pc = "progress",
                    !.dispatched = Append(@, i + 1),
                    !.chunk_summaries = Append(@, r.value)]
            ELSE SRaise([@ EXCEPT !.dispatched = Append(@, i + 1),
                                  !.failed_unit = i + 1,
                                  !.failed_cause = r.cause],
                        Exc("SummarizationError",
                            WrapMsg("Failed to summarize chunk", i + 1, r.cause)))]
    /\ UNCHANGED <<sStore, seen, http>>
    /\ UNCHANGED <<tVars, fVars>>

\* Lines 92-95: the progress write after unit i.
process_transcription_progress(j) ==
    /\ sTask[j].pc = "progress"
    /\ LET t == sTask[j]
           data == [t.summary_data EXCEPT
                      !.progress = summarize_progress(t.i, Len(t.chunks))] IN
       \E ok \in BOOLEAN, m \in ExcMessages :
         IF ok
         THEN /\ sStore' = update_summary_job(sStore, data)
              /\ sTask' = [sTask EXCEPT ![j] =
                    [@ EXCEPT !.pc = "loop", !.i = @ + 1, !.summary_data = data]]
         ELSE /\ sTask' = [sTask EXCEPT ![j] =
                    SRaise([@ EXCEPT !.summary_data = data],
                           Exc("Exception", RawMsg(m)))]
              /\ UNCHANGED sStore
    /\ UNCHANGED <<seen, http>>
    /\ UNCHANGED <<tVars, fVars>>

\* The 0-based index of the first None in a list, Len when there is none.
RECURSIVE FirstNone(_, _)
FirstNone(xs, k) ==
    IF k > Len(xs) THEN Len(xs)
    ELSE IF IsNone(xs[k]) THEN k - 1 ELSE FirstNone(xs, k + 1)

\* Lines 97-103: the join of the chunk summaries (a TypeError when one of
\* them is None) and the 0.75 progress write.
process_transcription_combine(j) ==
    /\ sTask[j].pc = "loop"
    /\ sTask[j].i >= Len(sTask[j].chunks)
    /\ LET t == sTask[j]
           bad == FirstNone(t.chunk_summaries, 1)
           data == [t.summary_data EXCEPT !.progress = Frac(3, 4)] IN
       \E ok \in BOOLEAN, m \in ExcMessages :
         IF bad < Len(t.chunk_summaries)
         THEN /\ sTask' = [sTask EXCEPT ![j] =
                    SRaise(@, Exc("TypeError",
                       WrapMsg("sequence item", bad,
                               "expected str instance, NoneType found")))]
              /\ UNCHANGED sStore
         ELSE IF ok
         THEN /\ sStore' = update_summary_job(sStore, data)
              /\ sTask' = [sTask EXCEPT ![j] =
                    [@ EXCEPT !.pc = "final", !.summary_data = data]]
         ELSE /\ sTask' = [sTask EXCEPT ![j] =
                    SRaise([@ EXCEPT !.summary_data = data],
                           Exc("Exception", RawMsg(m)))]
              /\ UNCHANGED sStore
    /\ UNCHANGED <<seen, http>>
    /\ UNCHANGED <<tVars, fVars>>

\* message.content values of the text-generation service for the synthesis.
FinalContents ==
    {<<>>, <<Word("notes")>>, <<Word("notes"), Word("5/6/2024")>>}

\* create_final_summary: the outcome of the synthesis call. A call that
\* raises, a response with no choices, and a None content (a TypeError in
\* extract_metadata_from_text) raise SummarizationError("Failed to create
\* final summary: ..."); otherwise (formatted_summary, metadata).
FinalOutcomes ==
    {[ok |-> FALSE, value |-> None, cause |-> m] : m \in ApiMessages}
    \cup {[ok |-> FALSE, value |-> None,
           cause |-> "Received invalid response from OpenAI API"]}
    \cup {[ok |-> FALSE, value |-> None,
           cause |-> "expected string or bytes-like object"]}
    \cup UNION {{[ok |-> TRUE,
                   value |-> Some([summary |-> format_summary(c, metadata),
                                   metadata |-> metadata]),
                   cause |-> ""] : metadata \in extract_metadata_from_text(c)} :
                 c \in FinalContents}

\* Lines 105-111: the synthesis call.
process_transcription_final(j) ==
    /\ sTask[j].pc = "final"
    /\ \E r \in FinalOutcomes :
         sTask' = [sTask EXCEPT ![j] =
            IF r.ok
            THEN [@ EXCEPT !.pc = "complete", !.final = r.value]
            ELSE SRaise(@, Exc("SummarizationError",
                    WrapMsg("Failed to create final summary", 0, r.cause)))]
    /\ UNCHANGED <<sStore, seen, http>>
    /\ UNCHANGED <<tVars, fVars>>

\* Lines 115-118: the fields set on the job object at completion.
summarize_completed(data, final_summary, metadata) ==
    [data EXCEPT !.status = COMPLETED, !.progress = One,
                 !.summary = Some(final_summary),
                 !.metadata = Some(metadata)]

\* Lines 113-119: the Completed write.
process_transcription_complete(j) ==
    /\ sTask[j].pc = "complete"
    /\ LET t == sTask[j]
           data == summarize_completed(t.summary_data, Get(t.final).summary,
                                       Get(t.final).metadata) IN
       \E ok \in BOOLEAN, m \in ExcMessages :
         IF ok
         THEN /\ sStore' = update_summary_job(sStore, data)
              /\ sTask' = [sTask EXCEPT ![j] =
                    [@ EXCEPT !.pc = "done", !.summary_data = data]]
         ELSE /\ sTask' = [sTask EXCEPT ![j] =
                    SRaise([@ EXCEPT !.summary_data = data],
                           Exc("Exception", RawMsg(m)))]
              /\ UNCHANGED sStore
    /\ UNCHANGED <<seen, http>>
    /\ UNCHANGED <<tVars, fVars>>

\* Lines 125-131: the job object written by the exception handler.
summarize_failed(t, summary_id, e) ==
    [SummaryData(summary_id, t.transcription_id, FAILED, Zero) EXCEPT
        !.error = Some(e.msg)]

\* Exception classes that line 135 raises again as they are.
SummarizeErrors ==
    {"SummarizationError", "ResourceNotFoundError", "InvalidRequestError"}

\* Lines 121-137: the exception handler: the Failed write, then the
\* exception is raised again (as a SummarizationError unless it is one of
\* SummarizeErrors). When the Failed write raises, that exception leaves the
\* function instead.
process_transcription_except(j) ==
    /\ sTask[j].pc = "except"
    /\ LET t == sTask[j]
           e == Get(t.exc)
           data == summarize_failed(t, j, e) IN
       \E ok \in BOOLEAN, m \in ExcMessages :
         IF ok
         THEN /\ sStore' = update_summary_job(sStore, data)
              /\ sTask' = [sTask EXCEPT ![j] =
                    [@ EXCEPT !.pc = "done", !.summary_data = data,
                       !.raised = Some(Exc(IF e.cls \in SummarizeErrors
                                           THEN e.cls ELSE "SummarizationError",
                                           e.msg))]]
         ELSE /\ sTask' = [sTask EXCEPT ![j] =
                    [@ EXCEPT !.pc = "done", !.summary_data = data,
                              !.raised = Some(Exc("Exception", RawMsg(m)))]]
              /\ UNCHANGED sStore
    /\ UNCHANGED <<seen, http>>
    /\ UNCHANGED <<tVars, fVars>>

\* --------------------------------------- GET /summarize/status/{id}
\* SummarizeStatusResponse built from the row.
SummarizeStatusResponse(summary_data) ==
    [id |-> summary_data.id,
     status |-> summary_data.status,
     progress |-> summary_data.progress,
     summary |-> summary_data.summary,
     error |-> summary_data.error]

\* get_summary_job_status: 404 when get_summary_status finds no row, 500
\* when the read raises, else the snapshot.
get_summary_job_status(summary_id) ==
    LET summary_data == get_summary_job(sStore, summary_id) IN
    /\ \E ok \in BOOLEAN :
         seen' = IF ~ok
                 THEN [op |-> "summarize_status", id |-> summary_id,
                       code |-> 500, body |-> None]
                 ELSE IF IsNone(summary_data)
                 THEN [op |-> "summarize_status", id |-> summary_id,
                       code |-> 404, body |-> None]
                 ELSE [op |-> "summarize_status", id |-> summary_id,
                       code |-> 200,
                       body |-> Some(SummarizeStatusResponse(Get(summary_data)))]
    /\ UNCHANGED <<tVars, sVars, http, fVars>>

Next ==
    \/ \E file \in Uploads : transcribe_audio(file)
    \/ \E j \in TIds : process_audio_file_start(j)
    \/ \E j \in TIds : process_audio_file_upload(j)
    \/ \E j \in TIds : process_audio_file_split(j)
    \/ \E j \in TIds : process_audio_file_transcribe(j)
    \/ \E j \in TIds : process_audio_file_progress(j)
    \/ \E j \in TIds : process_audio_file_complete(j)
    \/ \E j \in TIds : process_audio_file_except(j)
    \/ \E j \in TIds : process_audio_file_finally(j)
    \/ \E j \in TIds \cup StatusIds : get_transcription_job_status(j)
    \/ \E id \in RequestIds : summarize_transcription(id)
    \/ \E j \in SIds : process_transcription_get(j)
    \/ \E j \in SIds : process_transcription_start(j)
    \/ \E j \in SIds : process_transcription_summarize(j)
    \/ \E j \in SIds : process_transcription_progress(j)
    \/ \E j \in SIds : process_transcription_combine(j)
    \/ \E j \in SIds : process_transcription_final(j)
    \/ \E j \in SIds : process_transcription_complete(j)
    \/ \E j \in SIds : process_transcription_except(j)
    \/ \E j \in SIds \cup StatusIds : get_summary_job_status(j)

Spec == Init /\ [][Next]_vars

\* ------------------------------------------------------- process restart
\* A background task lives in the memory of the server process (add_task,
\* api/transcribe.py line 68 and api/summarize.py line 69): when the
\* process dies, a run that has not returned stops where it is.
Running(task) == task.pc \notin {"idle", "done", "crashed"}

killed(task) ==
    IF Running(task) THEN [task EXCEPT !.pc = "crashed", !.lost = TRUE]
    ELSE task

\* Mutant: the restarted process dispatches every unfinished job again.
startup_event_resume(task) ==
    IF task.pc = "crashed" THEN [task EXCEPT !.pc = "start"] ELSE task

\* startup_event, as far as a pipeline run is concerned: it checks ffmpeg,
\* the store connection and the API key, and dispatches nothing.
startup_event(task) == task

\* The process dies while some run is under way, and is started again.
crash ==
    /\ \/ \E j \in DOMAIN tTask : Running(tTask[j])
       \/ \E j \in DOMAIN sTask : Running(sTask[j])
    /\ tTask' = [j \in DOMAIN tTask |-> startup_event(killed(tTask[j]))]
    /\ sTask' = [j \in DOMAIN sTask |-> startup_event(killed(sTask[j]))]
    /\ UNCHANGED <<tStore, sStore, seen, http, fVars>>

CrashNext == Next \/ crash

CrashSpec == Init /\ [][CrashNext]_vars


\* ------------------------------------------------------------- scheduling
\* One run of process_audio_file for job j: its next step, whichever it is.
process_audio_file(j) ==
    \/ process_audio_file_start(j)
    \/ process_audio_file_upload(j)
    \/ process_audio_file_split(j)
    \/ process_audio_file_transcribe(j)
    \/ process_audio_file_progress(j)
    \/ process_audio_file_complete(j)
    \/ process_audio_file_except(j)
    \/ process_audio_file_finally(j)

\* One run of process_transcription for job j: its next step.
process_transcription(j) ==
    \/ process_transcription_get(j)
    \/ process_transcription_start(j)
    \/ process_transcription_summarize(j)
    \/ process_transcription_progress(j)
    \/ process_transcription_combine(j)
    \/ process_transcription_final(j)
    \/ process_transcription_complete(j)
    \/ process_transcription_except(j)

\* A background task that was added runs, and every call it awaits returns
\* (with a value or with an exception), so a run that has a next step takes
\* it. Clients are not obliged to send requests.
FairSpec ==
    /\ Spec
    /\ \A j \in TIds : WF_vars(process_audio_file(j))
    /\ \A j \in SIds : WF_vars(process_transcription(j))

\* --------------------------------------------------------- concurrent jobs
\* Several jobs of each kind under way at once: the event loop interleaves
\* the steps of their background tasks with each other and with new
\* submissions.
MultiTIds == {"t1", "t2"}
MultiSIds == {"s1"}

\* The uploads of these jobs: accepted files that decode into two units.
MultiUploads ==
    {f \in Uploads : /\ f.ext \in supported_formats /\ f.bytes /\ f.decodable
                     /\ Len(split_audio_file(f.length_ms, CHUNK_DURATION_MS)) = 2}

MultiInit ==
    /\ tStore = EmptyStore
    /\ tTask = [j \in MultiTIds |-> TIdle]
    /\ sStore = EmptyStore
    /\ sTask = [j \in MultiSIds |-> SIdle]
    /\ seen = NoStatus
    /\ http = NoResponse
    /\ fn_in = NoCall
    /\ fn_out = None

MultiNext ==
    \/ \E file \in MultiUploads : transcribe_audio(file)
    \/ \E j \in MultiTIds : process_audio_file(j)
    \/ \E id \in MultiTIds : summarize_transcription(id)
    \/ \E j \in MultiSIds : process_transcription(j)

MultiSpec == MultiInit /\ [][MultiNext]_vars

\* ------------------------------------------- the summary text functions
\* extract_metadata_from_text and format_summary, applied to texts of at
\* most MaxMetaLen pieces and to metadata dictionaries with at most two
\* items per category; a function is called up to MaxCalls times on the
\* same arguments.
MaxMetaLen == 3
MaxCalls == 2

MetaTexts == UNION {[1..n -> {Word(w) : w \in Pieces}] : n \in 0..MaxMetaLen}
MetaItems == {<<>>, <<"a">>, <<"b", "a">>}
Metadata ==
    [dates : MetaItems, links : MetaItems, references : MetaItems,
     people : MetaItems, organizations : MetaItems, key_topics : MetaItems,
     other_info : MetaItems]
Summaries == {<<>>, <<Word("notes")>>, <<Word("notes"), Word("5/6/2024")>>}

MetaInit ==
    /\ tStore = EmptyStore
    /\ tTask = [j \in TIds |-> TIdle]
    /\ sStore = EmptyStore
    /\ sTask = [j \in SIds |-> SIdle]
    /\ seen = NoStatus
    /\ http = NoResponse
    /\ fn_in \in {[fn |-> "extract_metadata_from_text", text |-> t] :
                    t \in MetaTexts}
           \cup {[fn |-> "format_summary", summary |-> x, metadata |-> m] :
                    x \in Summaries, m \in Metadata}
    /\ fn_out = <<>>

\* fn_out is the list of the values the calls returned so far.
call_extract_metadata_from_text ==
    /\ fn_in.fn = "extract_metadata_from_text"
    /\ Len(fn_out) < MaxCalls
    /\ \E metadata \in extract_metadata_from_text(fn_in.text) :
         fn_out' = Append(fn_out, metadata)
    /\ UNCHANGED <<tVars, sVars, seen, http, fn_in>>

call_format_summary ==
    /\ fn_in.fn = "format_summary"
    /\ Len(fn_out) < MaxCalls
    /\ fn_out' = Append(fn_out, format_summary(fn_in.summary, fn_in.metadata))
    /\ UNCHANGED <<tVars, sVars, seen, http, fn_in>>

MetaNext ==
    \/ call_extract_metadata_from_text
    \/ call_format_summary

MetaSpec == MetaInit /\ [][MetaNext]_vars

\* ------------------------------------------------ the splitting functions
\* Calls of split_audio_file and split_text_into_chunks on their own: Init
\* draws the arguments, the action of a function applies it.
\* Audio lengths 0..MaxAudioLen and chunk durations 1..MaxChunkDuration (in
\* any unit of time), and the 7-minute audio with the 3-minute duration of
\* process_audio_file, in ms.
MaxAudioLen == 12
MaxChunkDuration == 5
\* Texts of at most MaxTextLen pieces.
MaxTextLen == 5

AudioCalls ==
    {[fn |-> "split_audio_file", length_ms |-> l, chunk_duration_ms |-> b] :
        l \in 0..MaxAudioLen, b \in 1..MaxChunkDuration}
    \cup {[fn |-> "split_audio_file", length_ms |-> 7 * 60 * 1000,
           chunk_duration_ms |-> CHUNK_DURATION_MS]}

\* The pieces of a text: a newline, a run of 2 characters, a run of 6.
TextPieces == {0, 2, 6}

Texts == UNION {[1..n -> TextPieces] : n \in 0..MaxTextLen}

\* max_tokens 1 and 2: chunks of 4 and of 8 characters.
TokenBudgets == {1, 2}

TextCalls ==
    {[fn |-> "split_text_into_chunks", text |-> t, max_tokens |-> k] :
        t \in Texts, k \in TokenBudgets}

SplitInit ==
    /\ tStore = EmptyStore
    /\ tTask = [j \in TIds |-> TIdle]
    /\ sStore = EmptyStore
    /\ sTask = [j \in SIds |-> SIdle]
    /\ seen = NoStatus
    /\ http = NoResponse
    /\ fn_in \in AudioCalls \cup TextCalls
    /\ fn_out = None

call_split_audio_file ==
    /\ fn_in.fn = "split_audio_file"
    /\ IsNone(fn_out)
    /\ fn_out' = Some(split_audio_file(fn_in.length_ms, fn_in.chunk_duration_ms))
    /\ UNCHANGED <<tVars, sVars, seen, http, fn_in>>

call_split_text_into_chunks ==
    /\ fn_in.fn = "split_text_into_chunks"
    /\ IsNone(fn_out)
    /\ fn_out' = Some(split_text_into_chunks(fn_in.text, fn_in.max_tokens))
    /\ UNCHANGED <<tVars, sVars, seen, http, fn_in>>

SplitNext ==
    \/ call_split_audio_file
    \/ call_split_text_into_chunks

SplitSpec == SplitInit /\ [][SplitNext]_vars

\* ================================================================ claims
Terminal(status) == status \in {COMPLETED, FAILED}
FEq(p, q) == p.num * q.den = q.num * p.den

\* ---------------------------------------------------------------- C1
\* A write to a record keeps its status moving forward: a row that is
\* Completed or Failed is unchanged, and a row that is Processing does not
\* become Pending again.
StatusForward(old, new) ==
    /\ Terminal(old.status) => new = old
    /\ old.status = PROCESSING => new.status # PENDING

\* C1: in every step, every transcription row and every summary row that
\* exists keeps its status moving forward along Pending -> Processing ->
\* {Completed, Failed}: no write changes a Completed or Failed row, and no
\* write moves Processing back to Pending.
C1_StatusForwardOnly ==
    [][ /\ \A j \in DOMAIN tStore : StatusForward(tStore[j], tStore'[j])
        /\ \A j \in DOMAIN sStore : StatusForward(sStore[j], sStore'[j]) ]_vars

\* A transcription run that wrote Completed is over, and a summarization run
\* over that transcription wrote Failed and is over.
C1_Witness ==
    /\ \E j \in DOMAIN tStore :
         tStore[j].status = COMPLETED /\ tTask[j].pc = "done"
    /\ \E j \in DOMAIN sStore :
         sStore[j].status = FAILED /\ sTask[j].pc = "done"

\* ---------------------------------------------------------------- C2
\* C2 (as claimed): in every step the persisted progress of every job does
\* not decrease, the write of the failure path included, and a status query
\* for a job never answers a progress below the one the previous query for
\* that job answered.
C2_ProgressNeverDecreases ==
    [][ /\ \A j \in DOMAIN tStore :
             FLeq(tStore[j].progress, tStore'[j].progress)
        /\ \A j \in DOMAIN sStore :
             FLeq(sStore[j].progress, sStore'[j].progress)
        /\ (seen.code = 200 /\ seen'.code = 200
            /\ seen'.op = seen.op /\ seen'.id = seen.id)
           => FLeq(Get(seen.body).progress, Get(seen'.body).progress) ]_vars

\* ---------------------------------------------------------------- C3
\* C3: in every transcription row and every summary row, result and error are
\* both null while the status is Pending or Processing; a Completed row has a
\* result (full_transcription, summary) and a null error; a Failed row has an
\* error and a null result.
ResultErrorShape(status, result, error) ==
    /\ status \in {PENDING, PROCESSING} => IsNone(result) /\ IsNone(error)
    /\ status = COMPLETED => ~IsNone(result) /\ IsNone(error)
    /\ status = FAILED => IsNone(result) /\ ~IsNone(error)

C3_ExactlyOneOfResultError ==
    /\ \A j \in DOMAIN tStore :
         ResultErrorShape(tStore[j].status, tStore[j].full_transcription,
                          tStore[j].error)
    /\ \A j \in DOMAIN sStore :
         ResultErrorShape(sStore[j].status, sStore[j].summary, sStore[j].error)

\* A transcription row is Failed because the Completed write raised, when
\* the job object of the run already carried the full transcription.
C3_Witness ==
    \E j \in DOMAIN tStore :
      /\ tStore[j].status = FAILED
      /\ tTask[j].pc = "done"
      /\ ~IsNone(tTask[j].exc)
      /\ tTask[j].i >= 1 /\ tTask[j].i = Len(tTask[j].chunks)

\* ---------------------------------------------------------------- C4
\* C4 (as claimed): once the inference call for unit k of a job has raised,
\* no unit after k has been dispatched, the row is not Completed, and when
\* the run is over the row is Failed.
AbortsAt(task, row) ==
    task.failed_unit # 0 =>
        /\ \A x \in Range(task.dispatched) : x <= task.failed_unit
        /\ row.status # COMPLETED
        /\ task.pc = "done" => row.status = FAILED

C4_FirstFailureAborts ==
    /\ \A j \in DOMAIN tStore : AbortsAt(tTask[j], tStore[j])
    /\ \A j \in DOMAIN sStore : AbortsAt(sTask[j], sStore[j])

\* ---------------------------------------------------------------- C5
\* The units (1-based) of a list of per-unit results that have no usable
\* content (None or the empty text).
Unusable(results) == {k \in 1..Len(results) : Falsy(results[k])}

\* The failing units of a run: those answered without usable content, and
\* the one whose call raised.
FailingUnits(task, results) ==
    Unusable(results) \cup (IF task.failed_unit # 0 THEN {task.failed_unit} ELSE {})

\* The exception the handler caught, if any, comes from a unit (a call that
\* raised, or the join of the results), not from the store or the storage.
OnlyUnitErrors(task) == IsNone(task.exc) \/ Get(task.exc).msg.kind # ""

\* The row of a finished run over n > 1 units in which exactly one unit k
\* failed, and nothing else, is not Completed, and when it is Failed its
\* error names unit k under the per-unit prefix, with the message of the call
\* when the call raised.
ErrorNamesUnit(task, row, results, prefix) ==
    (/\ task.pc = "done" /\ Len(task.chunks) > 1
     /\ Cardinality(FailingUnits(task, results)) = 1
     /\ OnlyUnitErrors(task)) =>
        LET k == CHOOSE x \in FailingUnits(task, results) : TRUE IN
        /\ row.status # COMPLETED
        /\ row.status = FAILED =>
             /\ ~IsNone(row.error)
             /\ Get(row.error).kind = prefix
             /\ Get(row.error).unit = k
             /\ task.failed_unit = k => Get(row.error).detail = task.failed_cause

\* C5 (as claimed): for every run over n > 1 units in which one unit k fails,
\* by raising or by an answer without usable content, the job is Failed and
\* the error on the Failed row names unit k and its cause.
C5_ErrorNamesFailingUnit ==
    /\ \A j \in DOMAIN tStore :
         ErrorNamesUnit(tTask[j], tStore[j],
            [k \in 1..Len(tTask[j].transcription_chunks) |->
                Some(tTask[j].transcription_chunks[k].text)],
            "Failed to transcribe chunk")
    /\ \A j \in DOMAIN sStore :
         ErrorNamesUnit(sTask[j], sStore[j], sTask[j].chunk_summaries,
                        "Failed to summarize chunk")

\* ---------------------------------------------------------------- C6
\* C6: a Failed transcription row has an empty chunks list and a null
\* full_transcription, a Failed summary row has a null summary and null
\* metadata, and a status response carries a transcription or a summary only
\* with status Completed.
C6_PartialOutputsDiscarded ==
    /\ \A j \in DOMAIN tStore :
         tStore[j].status = FAILED =>
            /\ tStore[j].chunks.val = <<>>
            /\ IsNone(tStore[j].full_transcription)
    /\ \A j \in DOMAIN sStore :
         sStore[j].status = FAILED =>
            /\ IsNone(sStore[j].summary)
            /\ IsNone(sStore[j].metadata)
    /\ (seen.code = 200 /\ seen.op = "transcribe_status"
        /\ ~IsNone(Get(seen.body).transcription))
       => Get(seen.body).status = COMPLETED
    /\ (seen.code = 200 /\ seen.op = "summarize_status"
        /\ ~IsNone(Get(seen.body).summary))
       => Get(seen.body).status = COMPLETED

\* A transcription job failed after a unit had been transcribed and its
\* segment persisted, and a client has read the Failed row.
C6_Witness ==
    \E j \in DOMAIN tStore :
      /\ tStore[j].status = FAILED
      /\ Len(tTask[j].transcription_chunks) >= 1
      /\ tTask[j].i >= 1
      /\ seen.code = 200 /\ seen.op = "transcribe_status" /\ seen.id = j
      /\ Get(seen.body).status = FAILED

\* ---------------------------------------------------------------- C7
\* C7: while a run is between two units, with i >= 1 units done out of n, the
\* persisted progress is (i / n) * stage_weight, with stage_weight 1 for
\* process_audio_file and 1/2 for the chunk stage of process_transcription;
\* after the last unit it is exactly stage_weight.
StageProgress(task, row, stage_weight) ==
    (task.pc = "loop" /\ task.i >= 1) =>
        /\ row.status = PROCESSING
        /\ FEq(row.progress, FMul(Frac(task.i, Len(task.chunks)), stage_weight))
        /\ task.i = Len(task.chunks) => row.progress = stage_weight

C7_ProgressFormula ==
    /\ \A j \in DOMAIN tStore : StageProgress(tTask[j], tStore[j], One)
    /\ \A j \in DOMAIN sStore : StageProgress(sTask[j], sStore[j], Half)

\* A transcription over three units completed, and the summarization over it
\* has done one unit of two or more.
C7_Witness ==
    /\ \E j \in DOMAIN tStore :
         tStore[j].status = COMPLETED /\ Len(tTask[j].chunks) = 3
    /\ \E j \in DOMAIN sStore :
         /\ sTask[j].pc = "loop" /\ sTask[j].i = 1
         /\ Len(sTask[j].chunks) >= 2

\* ---------------------------------------------------------------- C8
\* The transcription a request refers to is missing, not Completed or
\* without text.
NotSummarizable(transcribe_id) ==
    \/ transcribe_id \notin DOMAIN tStore
    \/ tStore[transcribe_id].status # COMPLETED
    \/ Falsy(tStore[transcribe_id].full_transcription)

\* C8: a step inserts a summaries row or schedules process_transcription
\* only for a transcription that exists, is Completed and has text; and a
\* step that answers a summarize request for any other transcription answers
\* an error and leaves the summaries table and the scheduled runs unchanged.
C8_RejectedBeforeAnyRecord ==
    [][ /\ (sStore' # sStore /\ DOMAIN sStore' # DOMAIN sStore)
           => \A j \in DOMAIN sStore' \ DOMAIN sStore :
                ~NotSummarizable(sStore'[j].transcribe_id)
        /\ \A j \in SIds :
             (sTask[j].pc = "idle" /\ sTask'[j].pc # "idle")
             => ~NotSummarizable(sTask'[j].transcription_id)
        /\ (http' # http /\ http'.op = "summarize" /\ NotSummarizable(http'.arg))
           => /\ http'.code \in {400, 404, 500}
              /\ sStore' = sStore /\ sTask' = sTask ]_vars

\* A summarize request for a transcription that is still Processing was
\* answered 400 and no summaries row exists.
C8_Witness ==
    /\ http.op = "summarize" /\ http.code = 400
    /\ http.arg \in DOMAIN tStore
    /\ tStore[http.arg].status = PROCESSING
    /\ DOMAIN sStore = {}

\* ---------------------------------------------------------------- C9
\* C9 (as claimed): every transcriptions row belongs to an upload that
\* decodes as audio and has content.
C9_NoRecordForBadInput ==
    \A j \in DOMAIN tStore :
        tTask[j].file.decodable /\ tTask[j].file.length_ms > 0

\* ---------------------------------------------------------------- C10
\* C10 (as claimed): when a run in which an error was raised is over, the
\* row is Failed with a non-empty error and no exception has left the
\* function.
ErrorRecorded(task, row) ==
    (task.pc = "done" /\ ~IsNone(task.exc)) =>
        /\ row.status = FAILED
        /\ ~IsNone(row.error) /\ ~IsEmptyMsg(Get(row.error))
        /\ IsNone(task.raised)

C10_ErrorsCapturedOnRecord ==
    /\ \A j \in DOMAIN tStore : ErrorRecorded(tTask[j], tStore[j])
    /\ \A j \in DOMAIN sStore : ErrorRecorded(sTask[j], sStore[j])
\* ---------------------------------------------------------------- C11
\* C11 (as claimed): under the scheduling of FairSpec, every job that has a
\* record eventually has the status Completed or Failed on it.
C11_EventuallyTerminal ==
    /\ \A j \in TIds :
         (j \in DOMAIN tStore) ~> (j \in DOMAIN tStore /\ Terminal(tStore[j].status))
    /\ \A j \in SIds :
         (j \in DOMAIN sStore) ~> (j \in DOMAIN sStore /\ Terminal(sStore[j].status))
\* ---------------------------------------------------------------- C12
\* The answer to the last status query, when it carried a status.
Answered(op) == seen.op = op /\ seen.code = 200

\* The last answer, when it said Failed, is what the row of that job says.
FailedAnswerStands ==
    /\ (Answered("transcribe_status") /\ Get(seen.body).status = FAILED)
       => /\ tStore[seen.id].status = FAILED
          /\ tStore[seen.id].error = Get(seen.body).error
    /\ (Answered("summarize_status") /\ Get(seen.body).status = FAILED)
       => /\ sStore[seen.id].status = FAILED
          /\ sStore[seen.id].error = Get(seen.body).error

\* C12 (as claimed): the status query that follows an answer Failed with
\* message m for the same job answers Failed with the same message m.
C12_FailedAnswerRepeats ==
    [][ (seen.code = 200 /\ Get(seen.body).status = FAILED
         /\ seen' # seen /\ seen'.op = seen.op /\ seen'.id = seen.id)
        => (seen'.code = 200 /\ seen'.body = seen.body) ]_vars

\* C12 (amended): a Failed row keeps its status and its error message for
\* ever; every status query that the store answers carries the status and
\* the error of the row; so after an answer Failed with message m, the row
\* says Failed with m and every later answer with a status says Failed with
\* m, never Pending, Processing or Completed.
C12_FailedAnswerIsStable ==
    [][ /\ \A j \in DOMAIN tStore :
             tStore[j].status = FAILED =>
                /\ tStore'[j].status = FAILED
                /\ tStore'[j].error = tStore[j].error
        /\ \A j \in DOMAIN sStore :
             sStore[j].status = FAILED =>
                /\ sStore'[j].status = FAILED
                /\ sStore'[j].error = sStore[j].error
        /\ (seen' # seen /\ seen'.code = 200 /\ seen'.op = "transcribe_status")
           => /\ Get(seen'.body).status = tStore[seen'.id].status
              /\ Get(seen'.body).error = tStore[seen'.id].error
        /\ (seen' # seen /\ seen'.code = 200 /\ seen'.op = "summarize_status")
           => /\ Get(seen'.body).status = sStore[seen'.id].status
              /\ Get(seen'.body).error = sStore[seen'.id].error
        /\ FailedAnswerStands' ]_vars

\* A summarization run is over, and a client has been answered that the job
\* Failed, with the message of the row.
C12_Witness ==
    /\ Answered("summarize_status")
    /\ Get(seen.body).status = FAILED
    /\ ~IsNone(Get(seen.body).error)
    /\ sTask[seen.id].pc = "done"
\* ---------------------------------------------------------------- C13
\* The step is the answer to a status query.
StatusQueryStep == seen' # seen

\* The table a status query reads.
Queried(op) == IF op = "transcribe_status" THEN DOMAIN tStore ELSE DOMAIN sStore

\* C13 (as claimed): a status query for an id with no row is answered
\* not-found and changes no table.
C13_UnknownIdIsNotFound ==
    [][ (StatusQueryStep /\ seen'.id \notin Queried(seen'.op))
        => (seen'.code = 404 /\ tStore' = tStore /\ sStore' = sStore) ]_vars

\* C13 (amended): a status query changes no table; for an id with no row it
\* is answered not-found when the store answers the read and with an
\* internal error when the read raises, never with a status; for an id that
\* has a row it is never answered not-found. A row, once inserted, is never
\* removed, and the id of the last accepted submission has a row.
C13_NotFoundOnlyForUnknownIds ==
    [][ /\ StatusQueryStep =>
            /\ tStore' = tStore /\ sStore' = sStore
            /\ seen'.id \notin Queried(seen'.op) => seen'.code \in {404, 500}
            /\ seen'.id \in Queried(seen'.op) => seen'.code \in {200, 500}
        /\ DOMAIN tStore \subseteq DOMAIN tStore'
        /\ DOMAIN sStore \subseteq DOMAIN sStore'
        /\ (http'.code = 200 /\ http'.op = "transcribe") => http'.id \in DOMAIN tStore'
        /\ (http'.code = 200 /\ http'.op = "summarize") => http'.id \in DOMAIN sStore' ]_vars

\* After a transcription was accepted, a status query for an id that no job
\* has was answered not-found.
C13_Witness ==
    /\ seen.op = "transcribe_status" /\ seen.code = 404
    /\ seen.id \notin DOMAIN tStore
    /\ DOMAIN tStore # {}
\* ---------------------------------------------------------------- C14
\* A call of split_audio_file has returned.
AudioSplitDone == fn_in.fn = "split_audio_file" /\ ~IsNone(fn_out)

\* The 7-minute audio and the 3-minute bound, in ms.
SevenMinutes == 7 * 60 * 1000
ThreeMinutes == 3 * 60 * 1000

\* C14: for an audio of length L > 0 and a bound B > 0, split_audio_file
\* returns ceil(L / B) chunks in order of start time; the first starts at 0,
\* each starts where the one before it ends, the last ends at L; every chunk
\* but the last has length B and the last has a length in 1..B. For 7
\* minutes and a bound of 3 minutes the chunks are [0,3), [3,6), [6,7)
\* minutes.
C14_AudioChunksCoverInput ==
    (AudioSplitDone /\ fn_in.length_ms > 0) =>
        LET L == fn_in.length_ms
            B == fn_in.chunk_duration_ms
            c == Get(fn_out)
            n == Len(c) IN
        /\ n = (L + B - 1) \div B
        /\ c[1].start_time = 0
        /\ c[n].end_time = L
        /\ \A k \in 1..(n - 1) :
             /\ c[k].end_time = c[k + 1].start_time
             /\ c[k].end_time - c[k].start_time = B
        /\ \A k \in 1..n :
             /\ c[k].start_time < c[k].end_time
             /\ c[k].end_time - c[k].start_time <= B
        /\ (L = SevenMinutes /\ B = ThreeMinutes) =>
             c = << [start_time |-> 0, end_time |-> ThreeMinutes],
                    [start_time |-> ThreeMinutes, end_time |-> 2 * ThreeMinutes],
                    [start_time |-> 2 * ThreeMinutes, end_time |-> SevenMinutes] >>

\* The 7-minute audio was split with the 3-minute bound, into 3 chunks.
C14_Witness ==
    /\ AudioSplitDone
    /\ fn_in.length_ms = SevenMinutes /\ fn_in.chunk_duration_ms = ThreeMinutes
    /\ Len(Get(fn_out)) = 3
\* ---------------------------------------------------------------- C15
\* A call of split_text_into_chunks has returned.
TextSplitDone == fn_in.fn = "split_text_into_chunks" /\ ~IsNone(fn_out)

\* C15 (as claimed): for every text, the chunks that split_text_into_chunks
\* returns, joined in order by the paragraph separator, are the text.
C15_TextRoundTrip ==
    TextSplitDone => JoinStr(ParaSep, Get(fn_out)) = fn_in.text

\* ---------------------------------------------------------------- C16
\* The paragraphs of a text.
Paragraphs(text) == split_paragraphs(<<>>, text)

\* C16 (as claimed): every chunk that split_text_into_chunks returns has at
\* most max_tokens * 4 characters, separators included, unless it is one
\* paragraph; and every paragraph of a chunk is a paragraph of the text.
C16_ChunksWithinBudget ==
    TextSplitDone =>
        \A k \in 1..Len(Get(fn_out)) :
            LET chunk == Get(fn_out)[k] IN
            /\ \/ StrLen(chunk) <= fn_in.max_tokens * 4
               \/ Len(Paragraphs(chunk)) = 1
            /\ Range(Paragraphs(chunk)) \subseteq Range(Paragraphs(fn_in.text))
\* ---------------------------------------------------------------- C17
\* The text has no paragraph that is not empty.
NoContent(text) == \A k \in 1..Len(Paragraphs(text)) : Paragraphs(text)[k] = <<>>

\* C17 (as claimed): a transcription job over audio of length zero, and a
\* summarization job over a text without a non-empty paragraph, never
\* reaches Completed.
C17_EmptyInputNeverCompletes ==
    /\ \A j \in DOMAIN tStore :
         tTask[j].file.length_ms = 0 => tStore[j].status # COMPLETED
    /\ \A j \in DOMAIN sStore :
         (sTask[j].checked /\ NoContent(sTask[j].full_transcription))
            => sStore[j].status # COMPLETED
\* ---------------------------------------------------------------- C18
\* C18: the row of a Completed transcription job over n units has n
\* segments; segment k has the start and the end of unit k (in seconds) and
\* the text that the k-th inference call, which was the call for unit k,
\* returned; and full_transcription is the texts of the segments 1..n joined
\* in that order by the paragraph separator.
C18_SegmentsInUnitOrder ==
    \A j \in DOMAIN tStore :
        tStore[j].status = COMPLETED =>
            LET t == tTask[j]
                n == Len(t.chunks)
                segments == tStore[j].chunks.val IN
            /\ Len(segments) = n
            /\ Len(t.produced) = n
            /\ \A k \in 1..n :
                 /\ t.produced[k].unit = k
                 /\ segments[k].text = t.produced[k].text
                 /\ segments[k].start_time = Frac(t.chunks[k].start_time, 1000)
                 /\ segments[k].end_time = Frac(t.chunks[k].end_time, 1000)
            /\ tStore[j].full_transcription =
                 Some(JoinStr(ParaSep, [k \in 1..n |-> t.produced[k].text]))

\* A transcription job over three units is Completed, the first unit was
\* answered with the empty text and the last with a paragraph.
C18_Witness ==
    \E j \in DOMAIN tStore :
      /\ tStore[j].status = COMPLETED
      /\ Len(tTask[j].chunks) = 3
      /\ tTask[j].produced[1].text = <<>>
      /\ tTask[j].produced[3].text # <<>>
\* ---------------------------------------------------------------- C19
\* The exception the handler caught is the failure of create_final_summary.
SynthesisFailed(task) ==
    /\ ~IsNone(task.exc)
    /\ Get(task.exc).msg.kind = "Failed to create final summary"

\* C19 (as claimed): when every unit summary succeeded and the synthesis
\* call failed, the row has no summary and is not Completed, and when the
\* run is over the row is Failed.
C19_SynthesisFailureFailsJob ==
    \A j \in DOMAIN sStore :
        SynthesisFailed(sTask[j]) =>
            /\ IsNone(sStore[j].summary)
            /\ sStore[j].status # COMPLETED
            /\ sTask[j].pc = "done" => sStore[j].status = FAILED

\* ---------------------------------------------------------------- C20
\* C20 (as claimed): no empty or null payload is accepted as the result of
\* a unit or of the synthesis: the accumulated segment texts and unit
\* summaries are all non-empty, the synthesized summary is non-empty, and
\* the row of a Completed job over one unit or more has a non-empty result.
C20_EmptyPayloadIsFailure ==
    /\ \A j \in DOMAIN tStore :
         /\ \A k \in 1..Len(tTask[j].transcription_chunks) :
              tTask[j].transcription_chunks[k].text # <<>>
         /\ (tStore[j].status = COMPLETED /\ Len(tTask[j].chunks) >= 1)
            => ~Falsy(tStore[j].full_transcription)
    /\ \A j \in DOMAIN sStore :
         /\ \A k \in 1..Len(sTask[j].chunk_summaries) :
              ~Falsy(sTask[j].chunk_summaries[k])
         /\ ~IsNone(sTask[j].final) => Get(sTask[j].final).summary # <<>>
         /\ (sStore[j].status = COMPLETED /\ Len(sTask[j].chunks) >= 1)
            => ~Falsy(sStore[j].summary)
\* C21: a run that was under way when the server process died is never
\* resumed: from then on no step belongs to it and its record is never
\* written again, so a record that was Pending or Processing at the crash
\* keeps that status (and every other field) for ever.
C21_LostRunNeverResumes ==
    [][/\ \A j \in DOMAIN tTask :
            tTask[j].lost =>
                /\ tTask'[j] = tTask[j]
                /\ tTask[j].pc = "crashed"
                /\ tStore'[j] = tStore[j]
       /\ \A j \in DOMAIN sTask :
            sTask[j].lost =>
                /\ sTask'[j] = sTask[j]
                /\ sTask[j].pc = "crashed"
                /\ sStore'[j] = sStore[j]]_vars

\* A run died after a progress write: its record is Processing part-way.
C21_Witness ==
    \E j \in DOMAIN tTask :
        /\ tTask[j].lost
        /\ tStore[j].status = PROCESSING
        /\ FLt(Zero, tStore[j].progress)
\* C22: under any interleaving of concurrently running jobs a step changes
\* at most one record, and only the step of that record's own run (or the
\* submission that creates it) changes it; the row written is exactly the
\* job object of that run, so it depends on nothing another job did; a step
\* of process_transcription leaves the transcription table as it is.
OwnTranscriptionWrite(j) ==
    /\ tTask'[j] # tTask[j]
    /\ tTask'[j].transcription_data.id = j
    /\ tStore'[j] = update_transcription_job(j :> create_transcription_job(j),
                                             tTask'[j].transcription_data)[j]

OwnSummaryWrite(j) ==
    /\ sTask'[j] # sTask[j]
    /\ sTask'[j].summary_data.id = j
    /\ sStore'[j] = update_summary_job(
                        j :> create_summary_job(j, sTask[j].transcription_id),
                        sTask'[j].summary_data)[j]

C22_JobsAreIsolated ==
    [][/\ \A j \in DOMAIN tStore' :
            (j \notin DOMAIN tStore \/ tStore'[j] # tStore[j]) =>
                /\ IF j \in DOMAIN tStore
                   THEN OwnTranscriptionWrite(j)
                   ELSE tStore'[j] = create_transcription_job(j)
                /\ \A k \in DOMAIN tStore \ {j} : tStore'[k] = tStore[k]
                /\ \A k \in DOMAIN tTask \ {j} : tTask'[k] = tTask[k]
                /\ sStore' = sStore /\ sTask' = sTask
       /\ \A j \in DOMAIN sStore' :
            (j \notin DOMAIN sStore \/ sStore'[j] # sStore[j]) =>
                /\ IF j \in DOMAIN sStore
                   THEN OwnSummaryWrite(j)
                   ELSE sStore'[j] =
                            create_summary_job(j, sTask'[j].transcription_id)
                /\ \A k \in DOMAIN sStore \ {j} : sStore'[k] = sStore[k]
                /\ \A k \in DOMAIN sTask \ {j} : sTask'[k] = sTask[k]
                /\ tStore' = tStore /\ tTask' = tTask
       /\ sTask' # sTask => tStore' = tStore
       /\ DOMAIN tStore \subseteq DOMAIN tStore'
       /\ DOMAIN sStore \subseteq DOMAIN sStore']_vars

\* A summarization run is part-way through a finished transcription while
\* the pipeline of another transcription job is part-way too.
C22_Witness ==
    \E a \in DOMAIN tStore, b \in DOMAIN tStore, j \in DOMAIN sStore :
        /\ a # b
        /\ tStore[a].status = COMPLETED
        /\ tTask[b].pc = "progress" /\ tStore[b].status = PROCESSING
        /\ tStore[b].progress = Half
        /\ sTask[j].transcription_id = a
        /\ sTask[j].pc = "progress" /\ sStore[j].status = PROCESSING
\* C23: every dictionary extract_metadata_from_text returns has no entry
\* twice in any category, also when the same date, link or reference is
\* matched several times or by several patterns; two calls on the same
\* text return dictionaries that are equal as sets per category; a text in
\* which nothing matches gives seven empty categories.
Categories ==
    {"dates", "links", "references", "people", "organizations", "key_topics",
     "other_info"}

NoDuplicates(items) ==
    \A a \in 1..Len(items), b \in 1..Len(items) : items[a] = items[b] => a = b

C23_MetadataIsDeduplicatedSet ==
    fn_in.fn = "extract_metadata_from_text" =>
        /\ \A k \in 1..Len(fn_out) :
              /\ DOMAIN fn_out[k] = Categories
              /\ \A c \in Categories : NoDuplicates(fn_out[k][c])
        /\ \A k \in 1..Len(fn_out), l \in 1..Len(fn_out), c \in Categories :
              Range(fn_out[k][c]) = Range(fn_out[l][c])
        /\ Range(fn_in.text) \subseteq {Word("notes")} =>
              \A k \in 1..Len(fn_out), c \in Categories : fn_out[k][c] = <<>>

\* The same date is matched in two pieces and the same reference by both
\* reference patterns; the two calls returned the dates in different orders.
C23_Witness ==
    /\ fn_in.fn = "extract_metadata_from_text"
    /\ fn_in.text = <<Word("2024-05-06"), Word("www.example.com/2024-05-06"),
                      Word("5/6/2024")>>
    /\ Len(fn_out) = 2
    /\ fn_out[1].dates = <<"2024-05-06", "5/6/2024">>
    /\ fn_out[2].dates = <<"5/6/2024", "2024-05-06">>
\* C24: format_summary returns the summary unchanged when every category
\* is empty; otherwise the unchanged summary, then the 'Additional
\* Information' heading, then one section for each non-empty category and
\* none for an empty one, in the order dates, links, references, people,
\* organizations, topics, other, each section listing the entries of its
\* category in their order.
CategoryOrder ==
    <<"dates", "links", "references", "people", "organizations",
      "key_topics", "other_info">>

Titles ==
    [dates |-> "Dates Mentioned", links |-> "Links/URLs",
     references |-> "References", people |-> "People Mentioned",
     organizations |-> "Organizations Mentioned", key_topics |-> "Key Topics",
     other_info |-> "Other Relevant Information"]

IsTitle(e) == e[1] = "h3"

FormattedAsSpecified(summary, metadata, out) ==
    LET shown == SelectSeq(CategoryOrder, LAMBDA c : metadata[c] # <<>>)
        n == Len(summary) IN
    /\ Len(out) >= n
    /\ SubSeq(out, 1, n) = summary
    /\ shown = <<>> => out = summary
    /\ shown # <<>> =>
        /\ Len(out) > n
        /\ out[n + 1] = <<"h2", "Additional Information">>
        /\ SelectSeq(SubSeq(out, n + 2, Len(out)), IsTitle)
             = [i \in 1..Len(shown) |-> <<"h3", Titles[shown[i]]>>]
        /\ n + 2 <= Len(out) /\ IsTitle(out[n + 2])
        /\ \A pos \in (n + 2)..Len(out), c \in Categories :
              out[pos] = <<"h3", Titles[c]>> =>
                 LET items == metadata[c]
                     end == pos + Len(items) IN
                 /\ end <= Len(out)
                 /\ \A q \in 1..Len(items) : out[pos + q] = <<"item", items[q]>>
                 /\ end = Len(out) \/ IsTitle(out[end + 1])

C24_SummaryThenSectionsInOrder ==
    fn_in.fn = "format_summary" =>
        \A k \in 1..Len(fn_out) :
            FormattedAsSpecified(fn_in.summary, fn_in.metadata, fn_out[k])

\* A summary formatted with dates and other information but no links: two
\* sections follow the heading.
C24_Witness ==
    /\ fn_in.fn = "format_summary"
    /\ fn_in.summary = <<Word("notes"), Word("5/6/2024")>>
    /\ fn_in.metadata.dates = <<"b", "a">>
    /\ fn_in.metadata.links = <<>>
    /\ fn_in.metadata.key_topics = <<"a">>
    /\ fn_in.metadata.other_info = <<"a">>
    /\ Len(fn_out) >= 1
    /\ Len(fn_out[1]) = Len(fn_in.summary) + 8
\* C25: a record becomes Failed or Completed only in a step that finds it
\* Processing: no step of a pipeline run takes a record from Pending
\* straight to a terminal status, also not when the check of the referenced
\* transcription or the Processing write itself raises.
C25_TerminalOnlyAfterProcessing ==
    [][/\ \A j \in DOMAIN tStore :
            (Terminal(tStore'[j].status) /\ ~Terminal(tStore[j].status))
                => tStore[j].status = PROCESSING
       /\ \A j \in DOMAIN sStore :
            (Terminal(sStore'[j].status) /\ ~Terminal(sStore[j].status))
                => sStore[j].status = PROCESSING]_vars
\* C26: an inference call (a unit of either pipeline, or the synthesis) is
\* issued only for a job whose record is Processing: the Processing write
\* has completed before the first unit is dispatched, so no call is ever
\* issued for a record that is still Pending.
InferenceCall(old, new) ==
    \/ Len(new.dispatched) > Len(old.dispatched)
    \/ old.pc = "final" /\ new.pc # "final"

C26_NoInferenceWhilePending ==
    [][/\ \A j \in DOMAIN tTask :
            Len(tTask'[j].dispatched) > Len(tTask[j].dispatched) =>
                /\ j \in DOMAIN tStore
                /\ tStore[j].status = PROCESSING
       /\ \A j \in DOMAIN sTask :
            InferenceCall(sTask[j], sTask'[j]) =>
                /\ j \in DOMAIN sStore
                /\ sStore[j].status = PROCESSING]_vars

\* The first unit of a transcription job has just been answered; the
\* record is Processing with no progress yet.
C26_Witness ==
    \E j \in DOMAIN tStore :
        /\ tTask[j].pc = "progress"
        /\ tTask[j].dispatched = <<1>>
        /\ tStore[j].status = PROCESSING
        /\ tStore[j].progress = Zero
\* C27: within one job the units are dispatched in ascending order, each
\* exactly once and one per step (a call is awaited before the next one is
\* issued), and unit u+1 is dispatched only when the progress write for
\* unit u has reached the store.
InOrderOnce(dispatched) == dispatched = [k \in 1..Len(dispatched) |-> k]

DispatchedAfterProgress(old, new, row, progress(_, _)) ==
    Len(new.dispatched) > Len(old.dispatched) =>
        /\ new.dispatched = Append(old.dispatched, Len(old.dispatched) + 1)
        /\ old.i = Len(old.dispatched)
        /\ Len(old.dispatched) >= 1 =>
              /\ row.status = PROCESSING
              /\ row.progress = progress(Len(old.dispatched) - 1, Len(old.chunks))

C27_UnitsInOrderAfterProgress ==
    [][/\ \A j \in DOMAIN tTask :
            /\ InOrderOnce(tTask'[j].dispatched)
            /\ Len(tTask'[j].dispatched) <= Len(tTask'[j].chunks)
            /\ j \in DOMAIN tStore =>
                  DispatchedAfterProgress(tTask[j], tTask'[j], tStore[j],
                                          transcribe_progress)
       /\ \A j \in DOMAIN sTask :
            /\ InOrderOnce(sTask'[j].dispatched)
            /\ Len(sTask'[j].dispatched) <= Len(sTask'[j].chunks)
            /\ j \in DOMAIN sStore =>
                  DispatchedAfterProgress(sTask[j], sTask'[j], sStore[j],
                                          summarize_progress)]_vars

\* The third unit of a transcription job has been answered; the record
\* shows the progress of two units.
C27_Witness ==
    \E j \in DOMAIN tStore :
        /\ tTask[j].pc = "progress"
        /\ tTask[j].dispatched = <<1, 2, 3>>
        /\ tStore[j].progress = transcribe_progress(1, 3)
\* C28: every record with a terminal status has progress exactly 1 when it
\* is Completed and exactly 0 when it is Failed, however many units were
\* done before the job ended (none included).
TerminalProgress(row) ==
    /\ row.status = COMPLETED => row.progress = One
    /\ row.status = FAILED => row.progress = Zero

C28_TerminalProgressIsOneOrZero ==
    /\ \A j \in DOMAIN tStore : TerminalProgress(tStore[j])
    /\ \A j \in DOMAIN sStore : TerminalProgress(sStore[j])

\* A transcription job failed at its third unit, after two progress
\* writes: its record is Failed with progress 0.
C28_Witness ==
    \E j \in DOMAIN tStore :
        /\ tStore[j].status = FAILED
        /\ tStore[j].progress = Zero
        /\ tTask[j].failed_unit = 3
        /\ tTask[j].pc = "done"
\* C29: the progress of a summarization record is 0, or (i/n) * 0.5 for a
\* unit i of the n units of the run, or 0.75, or 1; it is 0.75 only once
\* all unit summaries are combined, and the synthesis call is issued only
\* with 0.75 on the record; it is 1 exactly when the status is Completed.
UnitProgressValues(n) == {FMul(Frac(i, n), Half) : i \in 1..n}

ThreeQuarters == Frac(3, 4)

SummaryProgressAsSpecified(task, row) ==
    LET n == Len(task.chunks) IN
    /\ row.progress \in {Zero, ThreeQuarters, One} \cup UnitProgressValues(n)
    /\ row.progress = One <=> row.status = COMPLETED
    /\ row.progress = ThreeQuarters =>
          /\ task.i = n
          /\ Len(task.chunk_summaries) = n
          /\ task.pc \in {"final", "complete", "except", "done"}
    /\ task.pc \in {"final", "complete"} =>
          /\ row.status = PROCESSING
          /\ row.progress = ThreeQuarters

C29_SummaryProgressValues ==
    \A j \in DOMAIN sStore : SummaryProgressAsSpecified(sTask[j], sStore[j])

\* The synthesis call of a run over two units is about to be issued: the
\* record is Processing at 0.75.
C29_Witness ==
    \E j \in DOMAIN sStore :
        /\ sTask[j].pc = "final"
        /\ Len(sTask[j].chunks) = 2
        /\ sStore[j].status = PROCESSING
        /\ sStore[j].progress = ThreeQuarters
\* C30: when process_audio_file has returned or raised, no temporary file
\* of the run exists any more: neither the file the upload was saved to
\* nor a chunk file written by split_audio_file.
C30_NoTempFileLeft ==
    \A j \in DOMAIN tTask : tTask[j].pc = "done" => tTask[j].files = {}
\* C31: a pipeline run is scheduled only in the step of the accepted
\* submission that inserts its Pending record, so the record is there
\* before the run takes its first step; a run is scheduled once per job id
\* (it never goes back to its first step); a submission that is rejected,
\* by validation or because the insert raised, schedules no run, leaves no
\* record and leaves no temporary file of the request on disk.
Scheduled(old, new) == old.pc = "idle" /\ new.pc # "idle"

ScheduledWithRecord(j, store, store_next, old, new, first_pc) ==
    /\ Scheduled(old, new) =>
          /\ j \notin DOMAIN store
          /\ j \in DOMAIN store_next
          /\ store_next[j].status = PENDING
          /\ new.pc = first_pc
          /\ http'.code = 200 /\ http'.id = j
    /\ (j \notin DOMAIN store /\ j \in DOMAIN store_next) => Scheduled(old, new)
    /\ old.pc # "idle" => new.pc # "idle"
    /\ (old.pc # first_pc /\ new.pc = first_pc) => old.pc = "idle"
    /\ new.pc # "idle" => j \in DOMAIN store_next

IsPrefix(a, b) == Len(a) <= Len(b) /\ SubSeq(b, 1, Len(a)) = a

SegmentsOfUnits(task, segments, m) ==
    /\ Len(segments) = m
    /\ m <= Len(task.produced)
    /\ \A k \in 1..m :
          /\ task.produced[k].unit = k
          /\ segments[k] = [start_time |-> Frac(task.chunks[k].start_time, 1000),
                            end_time |-> Frac(task.chunks[k].end_time, 1000),
                            text |-> task.produced[k].text]

C32_PersistedSegmentsGrowByPrefix ==
    [][\A j \in DOMAIN tStore :
          /\ tStore'[j].status \in {PROCESSING, COMPLETED} =>
                IsPrefix(tStore[j].chunks.val, tStore'[j].chunks.val)
          /\ tStore'[j].status = PROCESSING =>
                SegmentsOfUnits(tTask'[j], tStore'[j].chunks.val, tTask'[j].i)
          /\ tStore'[j].status = COMPLETED =>
                SegmentsOfUnits(tTask'[j], tStore'[j].chunks.val,
                                Len(tTask'[j].chunks))]_vars

\* Two of the three units of a job are done: the record is Processing with
\* the segments of units 1 and 2.
C32_Witness ==
    \E j \in DOMAIN tStore :
        /\ tStore[j].status = PROCESSING
        /\ Len(tTask[j].chunks) = 3
        /\ tTask[j].pc = "loop" /\ tTask[j].i = 2
        /\ Len(tStore[j].chunks.val) = 2
\* C33: a run of process_transcription that has issued an inference call
\* has itself read the referenced transcription as an existing Completed
\* row with a non-empty full_transcription, which is the text it works on;
\* a run that did not read it so issues no inference call and its summary
\* job ends Failed.
ReadAsSummarizable(task) ==
    /\ task.checked
    /\ task.transcription_id \in DOMAIN tStore
    /\ tStore[task.transcription_id].status = COMPLETED
    /\ ~Falsy(tStore[task.transcription_id].full_transcription)
    /\ task.full_transcription =
          Get(tStore[task.transcription_id].full_transcription)

C33_InferenceOnlyAfterOwnCheck ==
    \A j \in DOMAIN sStore :
        /\ (sTask[j].dispatched # <<>> \/ sTask[j].pc \in {"final", "complete"}
            \/ ~IsNone(sTask[j].final))
              => ReadAsSummarizable(sTask[j])
        /\ (sTask[j].pc = "done" /\ ~sTask[j].checked) =>
              /\ sTask[j].dispatched = <<>>
              /\ IsNone(sTask[j].final)
              /\ sStore[j].status = FAILED
====
